---- MODULE Spec2Model ----
(***************************************************************************)
(* RecordStoreBot: the inventory ledger (inventory.py, db.py), the sale    *)
(* recorder (sales.py, reports.py), the Sell-Record and Add-Record         *)
(* conversations (sales.py, add_record.py), the authentication manager     *)
(* (auth.py) and the handler table of the application (bot.py).            *)
(*                                                                         *)
(* Every handler is a coroutine of one event loop and every storage call   *)
(* in it is synchronous, so a handler runs to completion between two       *)
(* events: one action per handler.  A handler that raises leaves the       *)
(* state of its conversation as it was (ConversationHandler stores a new   *)
(* state only from a returned value) but keeps what it had already         *)
(* written to user_data or to the database.                                *)
(*                                                                         *)
(* Text is a sequence of one-character strings.  Prices are integers in    *)
(* thousandths of the currency unit (40.00 is 40000).                      *)
(*                                                                         *)
(* Nine specifications:                                                    *)
(*   Spec         the application from the state main() leaves, one chat   *)
(*                sending the events the handler table of bot.py accepts;  *)
(*   HandlerSpec  every Sell-Record handler applied, for two chats, from   *)
(*                each state its ConversationHandler table registers it    *)
(*                for, the scratch data being what the preceding handlers  *)
(*                store;                                                   *)
(*   LedgerSpec   reduce_inventory_quantity and cleanup_sold_out_items     *)
(*                called in any order with any arguments.                  *)
(*   PromptSpec   the price and quantity prompts of both flows, each from  *)
(*                the state it is registered for, on every text drawn;     *)
(*   BulkSpec     bulk_import_from_excel run once on a drawn sheet;        *)
(*   PairSpec     two chats at once, each with the entry points of the     *)
(*                sell and add conversations and the handlers of their     *)
(*                first states;                                            *)
(*   ArchiveSpec  the sell handlers, the report commands and the sold-out  *)
(*                cleanup over sales tables that hold records at start;    *)
(*   AuthManagerSpec  the methods of AuthManager in any order, the clock   *)
(*                advancing by the hour;                                   *)
(*   SessionSpec  the login handlers and the protected commands, the       *)
(*                clock advancing by the hour.                             *)
(* No handler calls cleanup_sold_out_items: in HandlerSpec and LedgerSpec  *)
(* it is a maintenance step run against the database at any moment, so     *)
(* that the handlers also meet a pinned row that is gone.                  *)
(***************************************************************************)
EXTENDS Integers, Sequences, FiniteSets, TLC

VARIABLES
    inventory,            \* table inventory of clime_db.db: id -> row
    sales,                \* table sales of clime_db.db (sequence of rows)
    report_sales,         \* table sales of sales_log.db (sequence of rows)
    sell_state,           \* user -> state of the "sell_vinyls" conversation
    add_state,            \* user -> state of the "add_record" conversation
    login_state,          \* user -> state of the "login" conversation
    user_data,            \* user -> context.user_data (a dict: only present keys)
    authenticated_users,  \* AuthManager.authenticated_users: user -> expiry
    user_sessions,        \* table user_sessions: user -> expires_at
    now,                  \* datetime.now(), in hours
    event,                \* the last step: the event handled, the message
                          \* sent back, the call of reduce_inventory_quantity made
    successes,            \* id -> the calls of reduce_inventory_quantity on the
                          \* row that returned True
    inventory0,           \* the inventory table at start (never changes)
    bulk                  \* the run of bulk_import.py: the first column of the
                          \* sheet, the pairs whose lookup or insert fails,
                          \* the outcome

vars == <<inventory, sales, report_sales, sell_state, add_state, login_state,
          user_data, authenticated_users, user_sessions, now, event,
          successes, inventory0, bulk>>

(***************************************************************************)
(* Bounds                                                                  *)
(***************************************************************************)
MaxQty == 2       \* largest quantity of a row at start
MaxAmount == 2    \* largest amount a caller passes to reduce_inventory_quantity
MaxPage == 3      \* last catalog page the model follows
MaxPairs == 2     \* most (title, price) pairs of a sheet
MaxNow == 26      \* last hour the clock reaches

\* the chats of the handler specification, the ids of the rows at start
Users == {1, 2}
ItemIds == {1, 2}

(***************************************************************************)
(* Text                                                                    *)
(***************************************************************************)
\* str.lower() on the characters in use
Lower(c) ==
    CASE c = "P" -> "p"
      [] c = "F" -> "f"
      [] c = "B" -> "b"
      [] OTHER -> c

LowerText(s) == [i \in 1..Len(s) |-> Lower(s[i])]

RECURSIVE StripLeft(_)
StripLeft(s) == IF s # <<>> /\ Head(s) = " " THEN StripLeft(Tail(s)) ELSE s

RECURSIVE StripRight(_)
StripRight(s) ==
    IF s # <<>> /\ s[Len(s)] = " " THEN StripRight(SubSeq(s, 1, Len(s) - 1)) ELSE s

\* str.strip()
Strip(s) == StripRight(StripLeft(s))

\* SQLite's LIKE: % matches any run of characters, _ any one character,
\* letters match without regard to case
RECURSIVE LikeMatch(_, _)
LikeMatch(pat, s) ==
    IF pat = <<>> THEN s = <<>>
    ELSE IF Head(pat) = "%"
         THEN LikeMatch(Tail(pat), s) \/ (s # <<>> /\ LikeMatch(pat, Tail(s)))
         ELSE /\ s # <<>>
              /\ (Head(pat) = "_" \/ Lower(Head(pat)) = Lower(Head(s)))
              /\ LikeMatch(Tail(pat), Tail(s))

\* the byte order SQLite's default collation sorts text by
CharCode(c) ==
    CASE c = " " -> 32
      [] c = "%" -> 37
      [] c = "B" -> 66
      [] c = "F" -> 70
      [] c = "P" -> 80
      [] c = "_" -> 95
      [] c = "b" -> 98
      [] c = "f" -> 102
      [] c = "p" -> 112
      [] c = "r" -> 114
      [] c = "z" -> 122
      [] OTHER -> 127

RECURSIVE TextLess(_, _)
TextLess(a, b) ==
    IF a = <<>> THEN b # <<>>
    ELSE IF b = <<>> THEN FALSE
    ELSE IF CharCode(Head(a)) # CharCode(Head(b))
         THEN CharCode(Head(a)) < CharCode(Head(b))
         ELSE TextLess(Tail(a), Tail(b))

(***************************************************************************)
(* Dicts: a Python dict is a function whose domain is the keys present     *)
(***************************************************************************)
EmptyDict == [k \in {} |-> 0]
Put(d, k, v) == [x \in DOMAIN d \cup {k} |-> IF x = k THEN v ELSE d[x]]
Has(d, k) == k \in DOMAIN d

(***************************************************************************)
(* The inventory ledger (inventory.py)                                     *)
(***************************************************************************)
\* the columns init_db gives the two tables of clime_db.db and
\* init_report_db gives the table of sales_log.db
InventoryColumns == {"id", "artist_album", "genre", "style", "label", "format",
                     "condition", "price_gel", "quantity", "created_at"}
MainSalesColumns == {"id", "date", "artist_album", "genre", "style", "label",
                     "format", "condition", "price_gel", "payment_method",
                     "created_at"}
ReportSalesColumns == {"id", "date", "artist_album", "genre", "style", "label",
                       "format", "condition", "price_usd", "payment_method",
                       "created_at"}

\* the rows a stored table holds, by id, in the order ORDER BY artist_album
\* gives (rows of equal artist_album in rowid order)
RowBefore(inv, i, j) ==
    \/ TextLess(inv[i].artist_album, inv[j].artist_album)
    \/ inv[i].artist_album = inv[j].artist_album /\ i < j

RECURSIVE OrderByArtistAlbum(_, _)
OrderByArtistAlbum(inv, ids) ==
    IF ids = {} THEN <<>>
    ELSE LET first == CHOOSE i \in ids : \A j \in ids \ {i} : RowBefore(inv, i, j)
         IN  <<inv[first]>> \o OrderByArtistAlbum(inv, ids \ {first})

\* search_inventory(query): the rows as dicts
search_inventory(inv, query) ==
    LET like == <<"%">> \o LowerText(query) \o <<"%">>
        hit == {i \in DOMAIN inv :
                    \/ LikeMatch(like, LowerText(inv[i].artist_album))
                    \/ LikeMatch(like, LowerText(inv[i].genre))
                    \/ LikeMatch(like, LowerText(inv[i].style))
                    \/ LikeMatch(like, LowerText(inv[i].label))}
    IN  OrderByArtistAlbum(inv, hit)

\* get_all_inventory()
get_all_inventory(inv) == OrderByArtistAlbum(inv, DOMAIN inv)

\* get_inventory_by_id(item_id): <<row>> or <<>> (None)
get_inventory_by_id(inv, item_id) ==
    IF item_id \in DOMAIN inv THEN <<inv[item_id]>> ELSE <<>>

\* Faulty variants of reduce_inventory_quantity, kept to show that the
\* properties of the ledger tell the function from them.
\* without the test new_qty < 0
reduce_without_floor(inv, item_id, amount) ==
    IF amount <= 0 THEN [ok |-> FALSE, inv |-> inv]
    ELSE IF item_id \notin DOMAIN inv THEN [ok |-> FALSE, inv |-> inv]
    ELSE [ok |-> TRUE,
          inv |-> [inv EXCEPT ![item_id].quantity = @ - amount]]

\* with the UPDATE lost: the caller is told True and the row keeps its value
reduce_without_write(inv, item_id, amount) ==
    IF amount <= 0 THEN [ok |-> FALSE, inv |-> inv]
    ELSE IF item_id \notin DOMAIN inv THEN [ok |-> FALSE, inv |-> inv]
    ELSE IF inv[item_id].quantity - amount < 0 THEN [ok |-> FALSE, inv |-> inv]
    ELSE [ok |-> TRUE, inv |-> inv]

\* without the test amount <= 0
reduce_unsigned(inv, item_id, amount) ==
    IF item_id \notin DOMAIN inv THEN [ok |-> FALSE, inv |-> inv]
    ELSE LET new_qty == inv[item_id].quantity - amount
         IN  IF new_qty < 0 THEN [ok |-> FALSE, inv |-> inv]
             ELSE [ok |-> TRUE,
                   inv |-> [inv EXCEPT ![item_id].quantity = new_qty]]

\* selling what is left when the stock is short, and returning False
reduce_clamped(inv, item_id, amount) ==
    IF amount <= 0 THEN [ok |-> FALSE, inv |-> inv]
    ELSE IF item_id \notin DOMAIN inv THEN [ok |-> FALSE, inv |-> inv]
    ELSE LET new_qty == inv[item_id].quantity - amount
         IN  IF new_qty < 0
             THEN [ok |-> FALSE, inv |-> [inv EXCEPT ![item_id].quantity = 0]]
             ELSE [ok |-> TRUE,
                   inv |-> [inv EXCEPT ![item_id].quantity = new_qty]]

\* reduce_inventory_quantity(item_id, amount): the value returned and the
\* table afterwards
reduce_inventory_quantity(inv, item_id, amount) ==
    IF amount <= 0 THEN [ok |-> FALSE, inv |-> inv]
    ELSE IF item_id \notin DOMAIN inv THEN [ok |-> FALSE, inv |-> inv]
    ELSE LET new_qty == inv[item_id].quantity - amount
         IN  IF new_qty < 0 THEN [ok |-> FALSE, inv |-> inv]
             ELSE [ok |-> TRUE,
                   inv |-> [inv EXCEPT ![item_id].quantity = new_qty]]

\* cleanup_sold_out_items() (db.py): the table afterwards
cleanup_sold_out_items(inv) ==
    [i \in {j \in DOMAIN inv : ~(inv[j].quantity <= 0)} |-> inv[i]]

(***************************************************************************)
(* Stored rows and user input                                              *)
(***************************************************************************)
\* the row with id i: odd ids are copies of one title, even ids of another
ItemRow(i, q) ==
    [id |-> i,
     artist_album |-> IF i % 2 = 1 THEN <<"P", "f">> ELSE <<"B", "b">>,
     genre |-> <<"r">>,
     style |-> <<"r">>,
     label |-> <<"z">>,
     format |-> <<"L", "P">>,
     condition |-> IF i % 2 = 1 THEN "nm" ELSE "vg+",
     price_gel |-> IF i % 2 = 1 THEN 40000 ELSE 25000,
     quantity |-> q]

\* the inventory tables the application may find at start: init_db creates
\* the table only when it is missing, and every row was stored with a
\* quantity of at least 1
InitialInventories ==
    {[i \in ItemIds |-> ItemRow(i, q[i])] : q \in [ItemIds -> 1..MaxQty]}

\* the text messages a user sends
Texts == {"p", " r", "xyz", "ok", "-5", "35.5", "2"}

\* the characters of a message
Chars(t) ==
    CASE t = "p" -> <<"p">>
      [] t = " r" -> <<" ", "r">>
      [] t = "xyz" -> <<"x", "y", "z">>
      [] t = "ok" -> <<"o", "k">>
      [] t = "-5" -> <<"-", "5">>
      [] t = "35.5" -> <<"3", "5", ".", "5">>
      [] t = "2" -> <<"2">>

\* float(msg): the number in thousandths, or ValueError
ParseFloat(s) ==
    CASE s = <<"-", "5">> -> [ok |-> TRUE, val |-> -5000]
      [] s = <<"3", "5", ".", "5">> -> [ok |-> TRUE, val |-> 35500]
      [] s = <<"2">> -> [ok |-> TRUE, val |-> 2000]
      [] OTHER -> [ok |-> FALSE, val |-> 0]

\* int(text): the integer, or ValueError
ParseInt(s) ==
    CASE s = <<"-", "5">> -> [ok |-> TRUE, val |-> -5]
      [] s = <<"2">> -> [ok |-> TRUE, val |-> 2]
      [] OTHER -> [ok |-> FALSE, val |-> 0]

\* round(x, 2) on thousandths: to the nearest hundredth, a tie to the even one
Round2(v) ==
    LET q == v \div 10
        r == v % 10
    IN  IF r < 5 THEN q * 10
        ELSE IF r > 5 THEN (q + 1) * 10
        ELSE IF q % 2 = 0 THEN q * 10 ELSE (q + 1) * 10

PaymentMethods == {"cash", "pos"}

\* datetime.date.today().isoformat()
Today == "today"


\* the record of one call reduce_inventory_quantity(item_id, amount) on the
\* table inv
NoCall == [made |-> FALSE, id |-> 0, amount |-> 0, found |-> FALSE, before |-> 0,
           ok |-> FALSE]

CallRecord(inv, item_id, amount, ok) ==
    [made |-> TRUE, id |-> item_id, amount |-> amount,
     found |-> item_id \in DOMAIN inv,
     before |-> IF item_id \in DOMAIN inv THEN inv[item_id].quantity ELSE 0,
     ok |-> ok]

\* the successful calls counted by row
Succeeded(succ, call) ==
    IF call.ok /\ call.id \in DOMAIN succ
    THEN [succ EXCEPT ![call.id] = @ + 1] ELSE succ

\* the record of one step: who sent what to which handler, whether the
\* handler raised, the message it sent back ("" for none)
Ev(u, name, arg, raised, reply) ==
    [user |-> u, name |-> name, arg |-> arg, raised |-> raised,
     reply |-> IF raised THEN "" ELSE reply, call |-> NoCall]

NoEvent == Ev(0, "none", "", FALSE, "")

(***************************************************************************)
(* Authentication (auth.py)                                                *)
(***************************************************************************)
SESSION_TIMEOUT_HOURS == 24

Remove(d, k) == [x \in DOMAIN d \ {k} |-> d[x]]

\* A faulty variant of is_authenticated, kept to show that the properties
\* of the session cache tell the function from it: an entry of the
\* in-memory map is trusted without a look at the clock
is_authenticated_unclocked(mem, db, t, u) ==
    IF Has(mem, u) THEN [ok |-> TRUE, mem |-> mem]
    ELSE IF Has(db, u) /\ db[u] > t
         THEN [ok |-> TRUE, mem |-> Put(mem, u, db[u])]
         ELSE [ok |-> FALSE, mem |-> mem]

\* A faulty variant of is_authenticated, kept to show that the properties
\* of the expiry tell the function from it: a read of a live session moves
\* the expiry of the in-memory entry on
is_authenticated_sliding(mem, db, t, u) ==
    LET mem1 == IF Has(mem, u) /\ ~(t < mem[u]) THEN Remove(mem, u) ELSE mem
    IN  IF Has(mem, u) /\ t < mem[u]
        THEN [ok |-> TRUE, mem |-> Put(mem, u, t + SESSION_TIMEOUT_HOURS)]
        ELSE IF Has(db, u) /\ db[u] > t
             THEN [ok |-> TRUE, mem |-> Put(mem1, u, db[u])]
             ELSE [ok |-> FALSE, mem |-> mem1]

\* AuthManager.is_authenticated(user_id): the value returned and the
\* in-memory map afterwards
is_authenticated(mem, db, t, u) ==
    LET mem1 == IF Has(mem, u) /\ ~(t < mem[u]) THEN Remove(mem, u) ELSE mem
    IN  IF Has(mem, u) /\ t < mem[u] THEN [ok |-> TRUE, mem |-> mem]
        ELSE IF Has(db, u) /\ db[u] > t
             THEN [ok |-> TRUE, mem |-> Put(mem1, u, db[u])]
             ELSE [ok |-> FALSE, mem |-> mem1]

\* AuthManager.authenticate_user(user_id): the map and the table afterwards
authenticate_user(mem, db, t, u) ==
    [mem |-> Put(mem, u, t + SESSION_TIMEOUT_HOURS),
     db |-> Put(db, u, t + SESSION_TIMEOUT_HOURS)]

\* AuthManager.logout_user(user_id)
auth_logout_user(mem, db, u) ==
    [mem |-> Remove(mem, u), db |-> Remove(db, u)]

\* AuthManager.cleanup_expired_sessions(): the table afterwards
cleanup_expired_sessions(db, t) ==
    [u \in {v \in DOMAIN db : ~(db[v] < t)} |-> db[u]]

IsAuthenticated(u) == is_authenticated(authenticated_users, user_sessions, now, u).ok
AuthCache(u) == is_authenticated(authenticated_users, user_sessions, now, u).mem

(***************************************************************************)
(* The methods of AuthManager called on their own, and the clock           *)
(***************************************************************************)
AuthenticateUser(u) ==
    /\ LET r == authenticate_user(authenticated_users, user_sessions, now, u)
       IN  /\ authenticated_users' = r.mem
           /\ user_sessions' = r.db
    /\ event' = Ev(u, "authenticate_user", "", FALSE, "true")
    /\ UNCHANGED <<inventory, sales, report_sales, sell_state, add_state, login_state,
                   user_data, now, successes, inventory0, bulk>>

\* is_authenticated(user_id), with update_last_activity, which writes the
\* column last_activity only
IsAuthenticatedCall(u) ==
    /\ authenticated_users' = AuthCache(u)
    /\ event' = Ev(u, "is_authenticated", "", FALSE,
                   IF IsAuthenticated(u) THEN "true" ELSE "false")
    /\ UNCHANGED <<inventory, sales, report_sales, sell_state, add_state, login_state,
                   user_data, user_sessions, now, successes, inventory0, bulk>>

AuthLogoutUser(u) ==
    /\ LET r == auth_logout_user(authenticated_users, user_sessions, u)
       IN  /\ authenticated_users' = r.mem
           /\ user_sessions' = r.db
    /\ event' = Ev(u, "auth_logout_user", "", FALSE, "")
    /\ UNCHANGED <<inventory, sales, report_sales, sell_state, add_state, login_state,
                   user_data, now, successes, inventory0, bulk>>

CleanupExpiredSessions ==
    /\ user_sessions' = cleanup_expired_sessions(user_sessions, now)
    /\ event' = Ev(0, "cleanup_expired_sessions", "", FALSE, "")
    /\ UNCHANGED <<inventory, sales, report_sales, sell_state, add_state, login_state,
                   user_data, authenticated_users, now, successes, inventory0, bulk>>

\* datetime.now() an hour later
Tick ==
    /\ now < MaxNow
    /\ now' = now + 1
    /\ event' = Ev(0, "tick", "", FALSE, "")
    /\ UNCHANGED <<inventory, sales, report_sales, sell_state, add_state, login_state,
                   user_data, authenticated_users, user_sessions, successes,
                   inventory0, bulk>>

(***************************************************************************)
(* The Sell-Record conversation (sales.py)                                 *)
(***************************************************************************)
\* the handlers of bot.py are tried in the order main() adds them, and the
\* first whose conversation accepts the event handles it: a text message
\* goes to the login conversation while it waits for the password, then to
\* the add conversation while it waits for text, and only then to the sell
\* conversation
LoginTakesText(u) == login_state[u] = "WAITING_FOR_PASSWORD"
AddTakesText(u) == add_state[u] \in {"SEARCH_INPUT", "ASK_PRICE", "ASK_QUANTITY"}

\* A faulty variant of SellFlowStart, kept to show that the separation of
\* the chats tells the handler from it: the scratch data is one dict shared
\* by all chats, and /sell clears it
SellFlowStartSharedScratch(u) ==
    /\ IF sell_state[u] = "END"
       THEN /\ sell_state' = [sell_state EXCEPT ![u] = "SELL_QUERY"]
            /\ user_data' = [v \in DOMAIN user_data |-> EmptyDict]
            /\ event' = Ev(u, "sell", "", FALSE, "sell_welcome")
            /\ UNCHANGED authenticated_users
       ELSE /\ authenticated_users' = AuthCache(u)
            /\ event' = Ev(u, "sell", "", FALSE,
                           IF IsAuthenticated(u) THEN "" ELSE "access_denied")
            /\ UNCHANGED <<sell_state, user_data>>
    /\ UNCHANGED <<inventory, sales, report_sales, add_state, login_state,
                   user_sessions, now, successes, inventory0, bulk>>

\* /sell: the entry point sell_flow_start takes it only while the
\* conversation is not running (allow_reentry is left False, and no state
\* and no fallback of the conversation handles the command); otherwise it
\* falls through to unauthorized_handler
SellFlowStart(u) ==
    /\ IF sell_state[u] = "END"
       THEN /\ sell_state' = [sell_state EXCEPT ![u] = "SELL_QUERY"]
            /\ user_data' = [user_data EXCEPT ![u] = EmptyDict]
            /\ event' = Ev(u, "sell", "", FALSE, "sell_welcome")
            /\ UNCHANGED authenticated_users
       ELSE /\ authenticated_users' = AuthCache(u)
            /\ event' = Ev(u, "sell", "", FALSE,
                           IF IsAuthenticated(u) THEN "" ELSE "access_denied")
            /\ UNCHANGED <<sell_state, user_data>>
    /\ UNCHANGED <<inventory, sales, report_sales, add_state, login_state,
                   user_sessions, now, successes, inventory0, bulk>>

\* sell_flow_query: the button text reads item['price_usd'] of every row found
sell_flow_query(ud, inv, text) ==
    LET query == Strip(Chars(text))
        ud1 == Put(ud, "query", query)
        found_items == search_inventory(inv, query)
        ud2 == Put(ud1, "found_items", found_items)
    IN  IF found_items = <<>>
        THEN [raised |-> FALSE, state |-> "END", reply |-> "no_match", ud |-> ud1]
        ELSE IF \E i \in 1..Len(found_items) : ~Has(found_items[i], "price_usd")
        THEN [raised |-> TRUE, state |-> "SELL_QUERY", reply |-> "", ud |-> ud2]
        ELSE [raised |-> FALSE, state |-> "SELL_SELECT", reply |-> "select_record",
              ud |-> ud2]

SellFlowQuery(u, text) ==
    /\ sell_state[u] = "SELL_QUERY"
    /\ ~LoginTakesText(u) /\ ~AddTakesText(u)
    /\ LET r == sell_flow_query(user_data[u], inventory, text)
       IN  /\ sell_state' = [sell_state EXCEPT ![u] = r.state]
           /\ user_data' = [user_data EXCEPT ![u] = r.ud]
           /\ event' = Ev(u, "sell_query", "", r.raised, r.reply)
    /\ UNCHANGED <<inventory, sales, report_sales, add_state, login_state,
                   authenticated_users, user_sessions, now, successes, inventory0, bulk>>

\* sell_flow_select: callback select_<index>
sell_flow_select(ud, index) ==
    IF ~Has(ud, "found_items") \/ index + 1 > Len(ud["found_items"])
    THEN [raised |-> TRUE, state |-> "SELL_SELECT", ud |-> ud]
    ELSE LET selected_item == ud["found_items"][index + 1]
             ud1 == Put(ud, "selected_item", selected_item)
         IN  IF ~Has(selected_item, "price_usd")
             THEN [raised |-> TRUE, state |-> "SELL_SELECT", ud |-> ud1]
             ELSE [raised |-> FALSE, state |-> "SELL_PAYMENT", ud |-> ud1]

SellFlowSelect(u, index) ==
    /\ sell_state[u] = "SELL_SELECT"
    /\ add_state[u] # "SHOW_RESULTS"
    /\ LET r == sell_flow_select(user_data[u], index)
       IN  /\ sell_state' = [sell_state EXCEPT ![u] = r.state]
           /\ user_data' = [user_data EXCEPT ![u] = r.ud]
           /\ event' = Ev(u, "sell_select", "", r.raised, "choose_payment")
    /\ UNCHANGED <<inventory, sales, report_sales, add_state, login_state,
                   authenticated_users, user_sessions, now, successes, inventory0, bulk>>

\* sell_flow_payment: callback payment_cash or payment_pos
sell_flow_payment(ud, payment_method) ==
    LET ud1 == Put(ud, "payment_method", payment_method)
    IN  IF ~Has(ud, "selected_item") \/ ~Has(ud["selected_item"], "price_usd")
        THEN [raised |-> TRUE, state |-> "SELL_PAYMENT", ud |-> ud1]
        ELSE [raised |-> FALSE, state |-> "SELL_PRICE", ud |-> ud1]

SellFlowPayment(u, payment_method) ==
    /\ sell_state[u] = "SELL_PAYMENT"
    /\ LET r == sell_flow_payment(user_data[u], payment_method)
       IN  /\ sell_state' = [sell_state EXCEPT ![u] = r.state]
           /\ user_data' = [user_data EXCEPT ![u] = r.ud]
           /\ event' = Ev(u, "sell_payment", "", r.raised, "enter_price")
    /\ UNCHANGED <<inventory, sales, report_sales, add_state, login_state,
                   authenticated_users, user_sessions, now, successes, inventory0, bulk>>

\* the columns the INSERT statements of sell_flow_price and of
\* log_sale_to_report_db name
SaleInsertColumns == {"date", "artist_album", "genre", "style", "label", "format",
                      "condition", "price_usd", "payment_method"}

\* the row both INSERT statements are given
SaleRow(selected_item, final_price, payment_method) ==
    [date |-> Today,
     artist_album |-> selected_item["artist_album"],
     genre |-> selected_item["genre"],
     style |-> selected_item["style"],
     label |-> selected_item["label"],
     format |-> selected_item["format"],
     condition |-> selected_item["condition"],
     price |-> final_price,
     payment_method |-> payment_method]

\* A faulty variant of sell_price_input, kept to show that the properties of
\* the price prompt tell the function from it: a negative number is taken
\* as the price
sell_price_input_unsigned(ud, text) ==
    LET msg == Strip(Chars(text))
    IN  IF ~Has(ud, "selected_item") \/ ~Has(ud, "payment_method")
        THEN [kind |-> "raise", price |-> 0]
        ELSE IF LowerText(msg) = <<"o", "k">>
        THEN IF Has(ud["selected_item"], "price_usd")
             THEN [kind |-> "price", price |-> ud["selected_item"]["price_usd"]]
             ELSE [kind |-> "raise", price |-> 0]
        ELSE IF ~ParseFloat(msg).ok THEN [kind |-> "invalid", price |-> 0]
        ELSE [kind |-> "price", price |-> ParseFloat(msg).val]

\* sell_flow_price, lines 88-103: the price the message gives.  'ok' reads
\* selected_item['price_usd'] before the try block
sell_price_input(ud, text) ==
    LET msg == Strip(Chars(text))
    IN  IF ~Has(ud, "selected_item") \/ ~Has(ud, "payment_method")
        THEN [kind |-> "raise", price |-> 0]
        ELSE IF LowerText(msg) = <<"o", "k">>
        THEN IF Has(ud["selected_item"], "price_usd")
             THEN [kind |-> "price", price |-> ud["selected_item"]["price_usd"]]
             ELSE [kind |-> "raise", price |-> 0]
        ELSE IF ~ParseFloat(msg).ok THEN [kind |-> "invalid", price |-> 0]
        ELSE IF ParseFloat(msg).val < 0 THEN [kind |-> "negative", price |-> 0]
        ELSE [kind |-> "price", price |-> ParseFloat(msg).val]

\* the confirmation of sell_flow_price, lines 150-166
SaleConfirmation(inv, item_id) ==
    LET updated_item == get_inventory_by_id(inv, item_id)
        remaining_qty == IF updated_item # <<>> THEN updated_item[1].quantity ELSE 0
    IN  IF remaining_qty = 0 THEN "sale_recorded_out_of_stock"
        ELSE IF remaining_qty <= 2 THEN "sale_recorded_low_stock"
        ELSE "sale_recorded"

\* A faulty variant of sell_process_sale, kept to show that the properties
\* of the sale tell the function from it: the sale is written down although
\* the decrement was refused
sell_process_sale_unconditional(ud, inv, sl, rs, final_price) ==
    LET selected_item == ud["selected_item"]
        payment_method == ud["payment_method"]
        red == reduce_inventory_quantity(inv, selected_item["id"], 1)
        row == SaleRow(selected_item, final_price, payment_method)
        call == CallRecord(inv, selected_item["id"], 1, red.ok)
    IN  [state |-> "END",
         reply |-> SaleConfirmation(red.inv, selected_item["id"]),
         inv |-> red.inv, sales |-> Append(sl, row),
         report_sales |-> Append(rs, row), call |-> call]

\* A faulty variant of sell_process_sale, kept to show that the properties
\* of the end of a run tell the function from it: after an error in
\* recording the sale the conversation stays in SELL_PRICE
sell_process_sale_retrying(ud, inv, sl, rs, final_price) ==
    LET selected_item == ud["selected_item"]
        payment_method == ud["payment_method"]
        red == reduce_inventory_quantity(inv, selected_item["id"], 1)
        row == SaleRow(selected_item, final_price, payment_method)
        call == CallRecord(inv, selected_item["id"], 1, red.ok)
    IN  IF ~red.ok
        THEN [state |-> "END", reply |-> "unable_to_complete_sale", inv |-> inv,
              sales |-> sl, report_sales |-> rs, call |-> call]
        ELSE IF ~(SaleInsertColumns \subseteq MainSalesColumns)
        THEN [state |-> "SELL_PRICE", reply |-> "error_processing_sale",
              inv |-> red.inv, sales |-> sl, report_sales |-> rs, call |-> call]
        ELSE IF ~(SaleInsertColumns \subseteq ReportSalesColumns)
        THEN [state |-> "SELL_PRICE", reply |-> "error_processing_sale",
              inv |-> red.inv, sales |-> Append(sl, row), report_sales |-> rs,
              call |-> call]
        ELSE [state |-> "END", reply |-> SaleConfirmation(red.inv, selected_item["id"]),
              inv |-> red.inv, sales |-> Append(sl, row),
              report_sales |-> Append(rs, row), call |-> call]

\* sell_flow_price, lines 105-174: the sale at an accepted price.  Every
\* statement commits on its own; an exception after the decrement is caught
\* and reported, and what was committed stays
sell_process_sale(ud, inv, sl, rs, final_price) ==
    LET selected_item == ud["selected_item"]
        payment_method == ud["payment_method"]
        red == reduce_inventory_quantity(inv, selected_item["id"], 1)
        row == SaleRow(selected_item, final_price, payment_method)
        call == CallRecord(inv, selected_item["id"], 1, red.ok)
    IN  IF ~red.ok
        THEN [state |-> "END", reply |-> "unable_to_complete_sale", inv |-> inv,
              sales |-> sl, report_sales |-> rs, call |-> call]
        ELSE IF ~(SaleInsertColumns \subseteq MainSalesColumns)
        THEN [state |-> "END", reply |-> "error_processing_sale", inv |-> red.inv,
              sales |-> sl, report_sales |-> rs, call |-> call]
        ELSE IF ~(SaleInsertColumns \subseteq ReportSalesColumns)
        THEN [state |-> "END", reply |-> "error_processing_sale", inv |-> red.inv,
              sales |-> Append(sl, row), report_sales |-> rs, call |-> call]
        ELSE [state |-> "END", reply |-> SaleConfirmation(red.inv, selected_item["id"]),
              inv |-> red.inv, sales |-> Append(sl, row),
              report_sales |-> Append(rs, row), call |-> call]

SellFlowPrice(u, text) ==
    /\ sell_state[u] = "SELL_PRICE"
    /\ ~LoginTakesText(u) /\ ~AddTakesText(u)
    /\ LET in == sell_price_input(user_data[u], text)
       IN  IF in.kind = "price"
           THEN LET r == sell_process_sale(user_data[u], inventory, sales,
                                           report_sales, in.price)
                IN  /\ sell_state' = [sell_state EXCEPT ![u] = r.state]
                    /\ inventory' = r.inv
                    /\ sales' = r.sales
                    /\ report_sales' = r.report_sales
                    /\ successes' = Succeeded(successes, r.call)
                    /\ event' = [Ev(u, "sell_price", text, FALSE, r.reply)
                                     EXCEPT !.call = r.call]
           ELSE /\ event' = Ev(u, "sell_price", text, in.kind = "raise",
                               IF in.kind = "invalid" THEN "invalid_price"
                               ELSE "negative_price")
                /\ UNCHANGED <<sell_state, inventory, sales, report_sales,
                               successes>>
    /\ UNCHANGED <<add_state, login_state, user_data, authenticated_users,
                   user_sessions, now, inventory0, bulk>>

(***************************************************************************)
(* The ledger functions called on their own                                *)
(***************************************************************************)
ReduceInventoryQuantity(item_id, amount) ==
    /\ LET r == reduce_inventory_quantity(inventory, item_id, amount)
       IN  /\ inventory' = r.inv
           /\ event' = [Ev(0, "reduce_inventory_quantity", "", FALSE, "")
                            EXCEPT !.call = CallRecord(inventory, item_id, amount, r.ok)]
           /\ successes' = Succeeded(successes, CallRecord(inventory, item_id, amount, r.ok))
    /\ UNCHANGED <<sales, report_sales, sell_state, add_state, login_state,
                   user_data, authenticated_users, user_sessions, now, inventory0, bulk>>

\* A faulty variant of CleanupSoldOutItems, kept to show that the frame
\* property of the sale records tells the step from it: the records of the
\* titles that are removed are removed with them
CleanupSoldOutItemsWithSales ==
    /\ inventory' = cleanup_sold_out_items(inventory)
    /\ LET gone == {inventory[i].artist_album : i \in DOMAIN inventory \ DOMAIN inventory'}
           Stays(r) == r.artist_album \notin gone
       IN  /\ sales' = SelectSeq(sales, Stays)
           /\ report_sales' = SelectSeq(report_sales, Stays)
    /\ event' = Ev(0, "cleanup_sold_out_items", "", FALSE, "")
    /\ UNCHANGED <<sell_state, add_state, login_state,
                   user_data, authenticated_users, user_sessions, now,
                   successes, inventory0, bulk>>

CleanupSoldOutItems ==
    /\ inventory' = cleanup_sold_out_items(inventory)
    /\ event' = Ev(0, "cleanup_sold_out_items", "", FALSE, "")
    /\ UNCHANGED <<sales, report_sales, sell_state, add_state, login_state,
                   user_data, authenticated_users, user_sessions, now,
                   successes, inventory0, bulk>>

(***************************************************************************)
(* The login conversation (auth.py)                                        *)
(***************************************************************************)
\* start_login: /login outside a login conversation
StartLogin(u) ==
    /\ login_state[u] = "END"
    /\ authenticated_users' = AuthCache(u)
    /\ IF IsAuthenticated(u)
       THEN /\ event' = Ev(u, "login", "", FALSE, "already_authenticated")
            /\ UNCHANGED login_state
       ELSE /\ event' = Ev(u, "login", "", FALSE, "enter_password")
            /\ login_state' = [login_state EXCEPT ![u] = "WAITING_FOR_PASSWORD"]
    /\ UNCHANGED <<inventory, sales, report_sales, sell_state, add_state, user_data,
                   user_sessions, now, successes, inventory0, bulk>>

\* A faulty variant of HandlePassword, kept to show that the properties of
\* the login tell the handler from it: the test of the password is left out
HandlePasswordUnverified(u, correct) ==
    /\ login_state[u] = "WAITING_FOR_PASSWORD"
    /\ login_state' = [login_state EXCEPT ![u] = "END"]
    /\ authenticated_users' = Put(authenticated_users, u, now + SESSION_TIMEOUT_HOURS)
    /\ user_sessions' = Put(user_sessions, u, now + SESSION_TIMEOUT_HOURS)
    /\ event' = Ev(u, "password", "", FALSE,
                   IF correct THEN "authentication_successful"
                   ELSE "incorrect_password")
    /\ UNCHANGED <<inventory, sales, report_sales, sell_state, add_state, user_data,
                   now, successes, inventory0, bulk>>

\* handle_password, with AuthManager.authenticate_user
HandlePassword(u, correct) ==
    /\ login_state[u] = "WAITING_FOR_PASSWORD"
    /\ login_state' = [login_state EXCEPT ![u] = "END"]
    /\ IF correct
       THEN /\ authenticated_users' =
                   Put(authenticated_users, u, now + SESSION_TIMEOUT_HOURS)
            /\ user_sessions' = Put(user_sessions, u, now + SESSION_TIMEOUT_HOURS)
            /\ event' = Ev(u, "password", "", FALSE, "authentication_successful")
       ELSE /\ event' = Ev(u, "password", "", FALSE, "incorrect_password")
            /\ UNCHANGED <<authenticated_users, user_sessions>>
    /\ UNCHANGED <<inventory, sales, report_sales, sell_state, add_state, user_data,
                   now, successes, inventory0, bulk>>

\* A faulty variant of LogoutUser, kept to show that the properties of the
\* logout tell the handler from it: the row of user_sessions is left in
\* place
LogoutUserMemoryOnly(u) ==
    /\ IF IsAuthenticated(u)
       THEN /\ authenticated_users' = Remove(AuthCache(u), u)
            /\ event' = Ev(u, "logout", "", FALSE, "logged_out")
       ELSE /\ authenticated_users' = AuthCache(u)
            /\ event' = Ev(u, "logout", "", FALSE, "not_logged_in")
    /\ UNCHANGED <<inventory, sales, report_sales, sell_state, add_state, login_state,
                   user_data, user_sessions, now, successes, inventory0, bulk>>

\* logout_user (the handler), with AuthManager.logout_user
LogoutUser(u) ==
    /\ IF IsAuthenticated(u)
       THEN /\ authenticated_users' = Remove(AuthCache(u), u)
            /\ user_sessions' = Remove(user_sessions, u)
            /\ event' = Ev(u, "logout", "", FALSE, "logged_out")
       ELSE /\ authenticated_users' = AuthCache(u)
            /\ event' = Ev(u, "logout", "", FALSE, "not_logged_in")
            /\ UNCHANGED user_sessions
    /\ UNCHANGED <<inventory, sales, report_sales, sell_state, add_state, login_state,
                   user_data, now, successes, inventory0, bulk>>

\* the report commands of bot.py, each wrapped by require_auth: recent_sales
\* calls a function reports.py does not define and lets the error through,
\* the three reports catch it and report it
ReportCommands == {"sales", "daily", "weekly", "monthly"}

ReportCommand(u, cmd) ==
    /\ authenticated_users' = AuthCache(u)
    /\ event' = IF ~IsAuthenticated(u) THEN Ev(u, cmd, "", FALSE, "access_denied")
                ELSE Ev(u, cmd, "", cmd = "sales", "error_generating_report")
    /\ UNCHANGED <<inventory, sales, report_sales, sell_state, add_state, login_state,
                   user_data, user_sessions, now, successes, inventory0, bulk>>

(***************************************************************************)
(* /cancel (auth.py, sales.py, bot.py)                                     *)
(***************************************************************************)
\* A faulty variant of Cancel, kept to show that the frame property of
\* /cancel tells the handler from it: cancelling a sale takes the pinned
\* copy off the shelf all the same
CancelTakingTheCopy(u) ==
    /\ IF login_state[u] = "WAITING_FOR_PASSWORD"
       THEN /\ login_state' = [login_state EXCEPT ![u] = "END"]
            /\ event' = Ev(u, "cancel", "", FALSE, "login_cancelled")
            /\ UNCHANGED <<sell_state, authenticated_users, inventory>>
       ELSE IF sell_state[u] # "END"
       THEN /\ sell_state' = [sell_state EXCEPT ![u] = "END"]
            /\ event' = Ev(u, "cancel", "", FALSE, "sale_cancelled")
            /\ inventory' =
                   IF Has(user_data[u], "selected_item")
                   THEN reduce_inventory_quantity(
                            inventory, user_data[u]["selected_item"]["id"], 1).inv
                   ELSE inventory
            /\ UNCHANGED <<login_state, authenticated_users>>
       ELSE /\ authenticated_users' = AuthCache(u)
            /\ event' = Ev(u, "cancel", "", FALSE,
                           IF IsAuthenticated(u) THEN "" ELSE "access_denied")
            /\ UNCHANGED <<login_state, sell_state, inventory>>
    /\ UNCHANGED <<sales, report_sales, add_state, user_data,
                   user_sessions, now, successes, inventory0, bulk>>

\* the login conversation has the fallback cancel_login, the add
\* conversation has no fallback, the sell conversation has cancel_sale; a
\* /cancel none of them takes reaches unauthorized_handler
Cancel(u) ==
    /\ IF login_state[u] = "WAITING_FOR_PASSWORD"
       THEN /\ login_state' = [login_state EXCEPT ![u] = "END"]
            /\ event' = Ev(u, "cancel", "", FALSE, "login_cancelled")
            /\ UNCHANGED <<sell_state, authenticated_users>>
       ELSE IF sell_state[u] # "END"
       THEN /\ sell_state' = [sell_state EXCEPT ![u] = "END"]
            /\ event' = Ev(u, "cancel", "", FALSE, "sale_cancelled")
            /\ UNCHANGED <<login_state, authenticated_users>>
       ELSE /\ authenticated_users' = AuthCache(u)
            /\ event' = Ev(u, "cancel", "", FALSE,
                           IF IsAuthenticated(u) THEN "" ELSE "access_denied")
            /\ UNCHANGED <<login_state, sell_state>>
    /\ UNCHANGED <<inventory, sales, report_sales, add_state, user_data,
                   user_sessions, now, successes, inventory0, bulk>>

(***************************************************************************)
(* The Add-Record conversation (add_record.py)                             *)
(***************************************************************************)
CONDITION_OPTIONS == <<"m", "nm", "vg+", "vg", "g+", "g", "f", "p">>

\* the grades the model's users choose
ConditionInputs == {"nm", "p"}

\* the number of results of a full catalog page
PAGE_SIZE == 50

\* what the catalog returns for a page: so many releases, or an error
PageSizes == {0, 1, PAGE_SIZE}

\* what the marketplace suggests for a grade: nothing (<<>>) or a price
Suggestions == {<<>>, <<30004>>}

\* the columns the INSERT statement of save_to_inventory names
InventoryInsertColumns == {"artist_album", "genre", "style", "label", "format",
                           "condition", "price_usd", "quantity"}

\* /add: the entry point start_add takes it only while the conversation is
\* not running; otherwise it falls through to unauthorized_handler
StartAdd(u) ==
    /\ IF add_state[u] = "END"
       THEN /\ add_state' = [add_state EXCEPT ![u] = "SEARCH_INPUT"]
            /\ user_data' = [user_data EXCEPT ![u] = EmptyDict]
            /\ event' = Ev(u, "add", "", FALSE, "enter_album_name")
            /\ UNCHANGED authenticated_users
       ELSE /\ authenticated_users' = AuthCache(u)
            /\ event' = Ev(u, "add", "", FALSE,
                           IF IsAuthenticated(u) THEN "" ELSE "access_denied")
            /\ UNCHANGED <<add_state, user_data>>
    /\ UNCHANGED <<inventory, sales, report_sales, sell_state, login_state,
                   user_sessions, now, successes, inventory0, bulk>>

\* show_results: fetched is the number of releases the catalog returns for
\* the page, or -1 when the request fails
show_results(ud, fetched) ==
    IF ~Has(ud, "page") \/ ~Has(ud, "query") \/ fetched < 0
    THEN [raised |-> TRUE, ud |-> ud]
    ELSE [raised |-> FALSE,
          ud |-> Put(ud, "results", [page |-> ud["page"], n |-> fetched])]

\* handle_search
HandleSearch(u, text, fetched) ==
    /\ add_state[u] = "SEARCH_INPUT"
    /\ ~LoginTakesText(u)
    /\ LET ud1 == Put(Put(user_data[u], "query", Strip(Chars(text))), "page", 1)
           r == show_results(ud1, fetched)
       IN  /\ user_data' = [user_data EXCEPT ![u] = r.ud]
           /\ add_state' = [add_state EXCEPT ![u] =
                               IF r.raised THEN @ ELSE "SHOW_RESULTS"]
           /\ event' = Ev(u, "add_search", "", r.raised, "select_release")
    /\ UNCHANGED <<inventory, sales, report_sales, sell_state, login_state,
                   authenticated_users, user_sessions, now, successes, inventory0, bulk>>

\* handle_pagination: the buttons next (shown under a full page) and prev
\* (shown from page 2 on) of the message on display
HandlePagination(u, data, fetched) ==
    /\ add_state[u] = "SHOW_RESULTS"
    /\ Has(user_data[u], "results")
    /\ data = "next" => /\ user_data[u]["results"].n = PAGE_SIZE
                        /\ Has(user_data[u], "page") => user_data[u]["page"] < MaxPage
    /\ data = "prev" => user_data[u]["results"].page > 1
    /\ IF ~Has(user_data[u], "page")
       THEN /\ event' = Ev(u, "add_page", data, TRUE, "")
            /\ UNCHANGED user_data
       ELSE LET page == user_data[u]["page"]
                ud1 == Put(user_data[u], "page",
                           IF data = "next" THEN page + 1
                           ELSE IF page - 1 > 1 THEN page - 1 ELSE 1)
                r == show_results(ud1, fetched)
            IN  /\ user_data' = [user_data EXCEPT ![u] = r.ud]
                /\ event' = Ev(u, "add_page", data, r.raised, "select_release")
    /\ UNCHANGED <<inventory, sales, report_sales, sell_state, add_state, login_state,
                   authenticated_users, user_sessions, now, successes, inventory0, bulk>>

\* handle_release_select: callback select_<idx> of the message on display
HandleReleaseSelect(u, idx) ==
    /\ add_state[u] = "SHOW_RESULTS"
    /\ Has(user_data[u], "results")
    /\ idx < user_data[u]["results"].n
    /\ user_data' = [user_data EXCEPT ![u] =
                        Put(@, "release", [page |-> @["results"].page, index |-> idx])]
    /\ add_state' = [add_state EXCEPT ![u] = "ASK_CONDITION"]
    /\ event' = Ev(u, "add_select", "", FALSE, "choose_condition")
    /\ UNCHANGED <<inventory, sales, report_sales, sell_state, login_state,
                   authenticated_users, user_sessions, now, successes, inventory0, bulk>>

\* what the marketplace does with a price-suggestion request: the request
\* fails, the answer is empty, it has an entry for another grade only, its
\* entries have the value 0, or it has a value for every grade
LookupOutcomes == {"error", "empty", "other_grade", "zero", "value"}

\* the answer of the marketplace, by grade
LookupAnswer(lookup) ==
    IF lookup = "other_grade" THEN [c \in {"m"} |-> 30004]
    ELSE IF lookup = "zero"
    THEN [c \in {CONDITION_OPTIONS[k] : k \in 1..Len(CONDITION_OPTIONS)} |-> 0]
    ELSE IF lookup = "value"
    THEN [c \in {CONDITION_OPTIONS[k] : k \in 1..Len(CONDITION_OPTIONS)} |-> 30004]
    ELSE EmptyDict

\* A faulty variant of fetch_price_suggestions, kept to show that the
\* properties of the lookup tell the function from it: the exception of a
\* failed request is let through
fetch_price_suggestions_uncaught(lookup) ==
    IF lookup = "error" THEN [raised |-> TRUE, suggestions |-> EmptyDict]
    ELSE [raised |-> FALSE, suggestions |-> LookupAnswer(lookup)]

\* fetch_price_suggestions(release_id): a failed request is caught and
\* gives {}
fetch_price_suggestions(lookup) ==
    IF lookup = "error" THEN [raised |-> FALSE, suggestions |-> EmptyDict]
    ELSE [raised |-> FALSE, suggestions |-> LookupAnswer(lookup)]

\* suggestions.get(full_condition, {}).get("value", None)
SuggestionFor(suggestions, cond) ==
    IF Has(suggestions, cond) THEN <<suggestions[cond]>> ELSE <<>>

\* handle_condition_select: callback cond_<grade>; suggestion is the value
\* the marketplace gives for the grade, <<>> when it gives none or fails
handle_condition_select(ud, cond, suggestion) ==
    LET ud1 == Put(ud, "condition", cond)
        price == IF suggestion # <<>> /\ suggestion[1] # 0 THEN suggestion ELSE <<>>
    IN  IF ~Has(ud, "release")
        THEN [raised |-> TRUE, ud |-> ud1, reply |-> ""]
        ELSE [raised |-> FALSE,
              ud |-> Put(ud1, "suggested_price",
                         IF price # <<>> THEN <<Round2(price[1])>> ELSE <<>>),
              reply |-> IF price # <<>> THEN "suggested_price"
                        ELSE "no_price_suggestion"]

\* the handler with the lookup it makes: lookup is what the marketplace
\* does with the request (line 158 comes after the grade is stored and the
\* release is read)
HandleConditionSelect(u, cond, lookup) ==
    /\ add_state[u] = "ASK_CONDITION"
    /\ LET f == fetch_price_suggestions(lookup)
           r == IF f.raised /\ Has(user_data[u], "release")
                THEN [raised |-> TRUE, ud |-> Put(user_data[u], "condition", cond),
                      reply |-> ""]
                ELSE handle_condition_select(user_data[u], cond,
                                             SuggestionFor(f.suggestions, cond))
       IN  /\ user_data' = [user_data EXCEPT ![u] = r.ud]
           /\ add_state' = [add_state EXCEPT ![u] =
                               IF r.raised THEN @ ELSE "ASK_PRICE"]
           /\ event' = Ev(u, "add_condition", lookup, r.raised, r.reply)
    /\ UNCHANGED <<inventory, sales, report_sales, sell_state, login_state,
                   authenticated_users, user_sessions, now, successes, inventory0, bulk>>

\* A faulty variant of handle_price_input, kept to show that the order of the
\* states tells the function from it: a text that is no number ends the
\* conversation
handle_price_input_ending(ud, text) ==
    LET msg == Strip(Chars(text))
    IN  IF LowerText(msg) = <<"o", "k">> /\ Has(ud, "suggested_price")
           /\ ud["suggested_price"] # <<>>
        THEN [state |-> "ASK_QUANTITY",
              ud |-> Put(ud, "final_price", Round2(ud["suggested_price"][1]))]
        ELSE IF ~ParseFloat(msg).ok
        THEN [state |-> "END", ud |-> ud]
        ELSE [state |-> "ASK_QUANTITY",
              ud |-> Put(ud, "final_price", Round2(ParseFloat(msg).val))]

\* A faulty variant of handle_price_input, kept to show that the properties
\* of the price prompt tell the function from it: 'ok' is taken without a
\* suggestion, at the price 0
handle_price_input_ok_unchecked(ud, text) ==
    LET msg == Strip(Chars(text))
    IN  IF LowerText(msg) = <<"o", "k">>
        THEN [state |-> "ASK_QUANTITY",
              ud |-> Put(ud, "final_price",
                         IF Has(ud, "suggested_price") /\ ud["suggested_price"] # <<>>
                         THEN Round2(ud["suggested_price"][1]) ELSE 0)]
        ELSE IF ~ParseFloat(msg).ok
        THEN [state |-> "ASK_PRICE", ud |-> ud]
        ELSE [state |-> "ASK_QUANTITY",
              ud |-> Put(ud, "final_price", Round2(ParseFloat(msg).val))]

\* handle_price_input
handle_price_input(ud, text) ==
    LET msg == Strip(Chars(text))
    IN  IF LowerText(msg) = <<"o", "k">> /\ Has(ud, "suggested_price")
           /\ ud["suggested_price"] # <<>>
        THEN [state |-> "ASK_QUANTITY",
              ud |-> Put(ud, "final_price", Round2(ud["suggested_price"][1]))]
        ELSE IF ~ParseFloat(msg).ok
        THEN [state |-> "ASK_PRICE", ud |-> ud]
        ELSE [state |-> "ASK_QUANTITY",
              ud |-> Put(ud, "final_price", Round2(ParseFloat(msg).val))]

HandlePriceInput(u, text) ==
    /\ add_state[u] = "ASK_PRICE"
    /\ ~LoginTakesText(u)
    /\ LET r == handle_price_input(user_data[u], text)
       IN  /\ user_data' = [user_data EXCEPT ![u] = r.ud]
           /\ add_state' = [add_state EXCEPT ![u] = r.state]
           /\ event' = Ev(u, "add_price", text, FALSE,
                          IF r.state = "ASK_PRICE" THEN "invalid_price"
                          ELSE "how_many_copies")
    /\ UNCHANGED <<inventory, sales, report_sales, sell_state, login_state,
                   authenticated_users, user_sessions, now, successes, inventory0, bulk>>

\* save_to_inventory(row): the INSERT fails when it names a column the
\* table does not have; a new row takes the next id
save_to_inventory(inv, row) ==
    IF ~(InventoryInsertColumns \subseteq InventoryColumns)
    THEN [raised |-> TRUE, inv |-> inv]
    ELSE LET used == DOMAIN inv \cup DOMAIN inventory0
             new_id == 1 + (CHOOSE m \in used \cup {0} : \A k \in used : k <= m)
         IN  [raised |-> FALSE,
              inv |-> [i \in DOMAIN inv \cup {new_id} |->
                          IF i = new_id THEN [row EXCEPT !.id = new_id] ELSE inv[i]]]

\* the row handle_quantity_input builds from the release of the catalog
AddRow(release, cond, price, qty) ==
    [id |-> 0,
     artist_album |-> IF release.index = 0 THEN <<"P", "f">> ELSE <<"B", "b">>,
     genre |-> <<"r">>,
     style |-> <<"r">>,
     label |-> <<"z">>,
     format |-> <<"L", "P">>,
     condition |-> cond,
     price_gel |-> price,
     quantity |-> qty]

\* handle_quantity_input
HandleQuantityInput(u, text) ==
    /\ add_state[u] = "ASK_QUANTITY"
    /\ ~LoginTakesText(u)
    /\ LET qty == ParseInt(Strip(Chars(text)))
           ud == user_data[u]
       IN  IF ~qty.ok \/ qty.val < 1
           THEN /\ event' = Ev(u, "add_quantity", text, FALSE, "invalid_quantity")
                /\ UNCHANGED <<add_state, inventory>>
           ELSE IF ~Has(ud, "release") \/ ~Has(ud, "condition")
                   \/ ~Has(ud, "final_price")
           THEN /\ event' = Ev(u, "add_quantity", text, TRUE, "")
                /\ UNCHANGED <<add_state, inventory>>
           ELSE LET r == save_to_inventory(inventory,
                             AddRow(ud["release"], ud["condition"],
                                    ud["final_price"], qty.val))
                IN  /\ inventory' = r.inv
                    /\ add_state' = [add_state EXCEPT ![u] = "END"]
                    /\ event' = Ev(u, "add_quantity", text, FALSE,
                                   IF r.raised THEN "error_saving_to_inventory"
                                   ELSE "added_to_inventory")
    /\ UNCHANGED <<sales, report_sales, sell_state, login_state, user_data,
                   authenticated_users, user_sessions, now, successes, inventory0, bulk>>

(***************************************************************************)
(* Bulk import (bulk_import.py)                                            *)
(***************************************************************************)
\* the values of a cell of the first column: empty (None), a text float()
\* takes, a text it does not take
Cells == {"none", "10.00", "abc"}

\* float(price) succeeds
FloatOfCell(c) == c = "10.00"

\* the names add_record.py binds at module level (imports, assignments,
\* functions)
AddRecordNames ==
    {"Update", "InlineKeyboardMarkup", "InlineKeyboardButton", "CommandHandler",
     "MessageHandler", "CallbackQueryHandler", "ConversationHandler",
     "ContextTypes", "filters", "discogs_client", "load_dotenv", "os", "get_db",
     "DISCOGS_TOKEN", "d", "CONDITION_OPTIONS", "SEARCH_INPUT", "SHOW_RESULTS",
     "ASK_CONDITION", "ASK_PRICE", "ASK_QUANTITY", "save_to_inventory",
     "fetch_price_suggestions", "safe_join_list", "safe_get_labels",
     "safe_get_format", "start_add", "handle_search", "show_results",
     "handle_pagination", "handle_release_select", "handle_condition_select",
     "handle_price_input", "handle_quantity_input", "start_add_flow"}

\* the names bulk_import.py imports from add_record when it is loaded
BulkImportNames == {"quick_add_from_discogs"}

\* the loop of bulk_import_from_excel from row index i (0-based) on: the
\* number of pairs added.  fails holds the pairs (numbered from 1) for which
\* quick_add_from_discogs raises
RECURSIVE BulkLoop(_, _, _)
BulkLoop(rows, fails, i) ==
    IF i >= Len(rows) THEN 0
    ELSE LET title == rows[i + 1]
             price == IF i + 1 < Len(rows) THEN rows[i + 2] ELSE "none"
             rest == BulkLoop(rows, fails, i + 2)
         IN  IF title = "none" THEN rest
             ELSE IF price = "none" THEN rest
             ELSE IF ~FloatOfCell(price) THEN rest
             ELSE IF (i \div 2) + 1 \in fails THEN rest
             ELSE 1 + rest

\* bulk_import_from_excel(path) as python bulk_import.py <file> runs it: the
\* module is loaded first, and loading it raises ImportError when a name it
\* imports is not defined
bulk_import_from_excel(rows, fails) ==
    IF ~(BulkImportNames \subseteq AddRecordNames)
    THEN [raised |-> TRUE, added |-> 0]
    ELSE [raised |-> FALSE, added |-> BulkLoop(rows, fails, 0)]

NoBulk == [rows |-> <<>>, fails |-> {}, done |-> FALSE, raised |-> FALSE, added |-> 0]

BulkImportFromExcel ==
    /\ ~bulk.done
    /\ LET r == bulk_import_from_excel(bulk.rows, bulk.fails)
       IN  bulk' = [bulk EXCEPT !.done = TRUE, !.raised = r.raised, !.added = r.added]
    /\ event' = Ev(0, "bulk_import_from_excel", "", bulk'.raised, "")
    /\ UNCHANGED <<inventory, sales, report_sales, sell_state, add_state, login_state,
                   user_data, authenticated_users, user_sessions, now,
                   successes, inventory0>>

(***************************************************************************)
(* The application (bot.py)                                                *)
(***************************************************************************)
\* the messages the model's users send to each handler that takes text
SellQueries == {"p", " r", "xyz"}
SellPrices == {"ok", "xyz", "-5", "35.5"}
AddQueries == {"p"}
AddPrices == {"ok", "xyz", "-5"}
AddQuantities == {"xyz", "-5", "2"}

\* the state main() leaves: the tables as the files hold them, an empty
\* in-memory session map, no conversation running
\* the chats that talk to the composed application
AppUsers == {1}

Init ==
    /\ inventory \in InitialInventories
    /\ inventory0 = inventory
    /\ sales = <<>>
    /\ report_sales = <<>>
    /\ sell_state = [u \in AppUsers |-> "END"]
    /\ add_state = [u \in AppUsers |-> "END"]
    /\ login_state = [u \in AppUsers |-> "END"]
    /\ user_data = [u \in AppUsers |-> EmptyDict]
    /\ authenticated_users = EmptyDict
    /\ user_sessions \in {EmptyDict, [u \in {1} |-> SESSION_TIMEOUT_HOURS]}
    /\ now = 0
    /\ event = NoEvent
    /\ successes = [i \in ItemIds |-> 0]
    /\ bulk = NoBulk

\* the handlers main() registers, as the dispatcher offers them an update
Next ==
    \E u \in AppUsers :
        \/ StartLogin(u)
        \/ \E correct \in BOOLEAN : HandlePassword(u, correct)
        \/ LogoutUser(u)
        \/ \E cmd \in ReportCommands : ReportCommand(u, cmd)
        \/ Cancel(u)
        \/ SellFlowStart(u)
        \/ \E text \in SellQueries : SellFlowQuery(u, text)
        \/ StartAdd(u)
        \/ \E text \in AddQueries, n \in PageSizes \cup {-1} : HandleSearch(u, text, n)
        \/ \E data \in {"next", "prev"}, n \in PageSizes \cup {-1} :
               HandlePagination(u, data, n)
        \/ \E idx \in {0, PAGE_SIZE - 1} : HandleReleaseSelect(u, idx)
        \/ \E cond \in ConditionInputs, lookup \in LookupOutcomes :
               HandleConditionSelect(u, cond, lookup)
        \/ \E text \in AddPrices : HandlePriceInput(u, text)
        \/ \E text \in AddQuantities : HandleQuantityInput(u, text)

Spec == Init /\ [][Next]_vars

(***************************************************************************)
(* The handlers of the sell conversation and the ledger, each from every   *)
(* state it is registered for                                              *)
(***************************************************************************)
\* the scratch data the sell handlers before a state have stored on the way
\* to it, over the table tbl
SellScratch(tbl, state) ==
    IF state \in {"END", "SELL_QUERY"} THEN {EmptyDict}
    ELSE LET searched ==
                 {Put(Put(EmptyDict, "query", Strip(Chars(q))), "found_items",
                      search_inventory(tbl, Strip(Chars(q)))) :
                    q \in {t \in SellQueries :
                              search_inventory(tbl, Strip(Chars(t))) # <<>>}}
             selected ==
                 UNION {{Put(d, "selected_item", d["found_items"][i]) :
                            i \in 1..Len(d["found_items"])} : d \in searched}
         IN  IF state = "SELL_SELECT" THEN searched
             ELSE IF state = "SELL_PAYMENT" THEN selected
             ELSE {Put(d, "payment_method", m) : d \in selected, m \in PaymentMethods}

SellStates == {"END", "SELL_QUERY", "SELL_SELECT", "SELL_PAYMENT", "SELL_PRICE"}

HandlerInit ==
    /\ inventory \in InitialInventories
    /\ inventory0 = inventory
    /\ sales = <<>>
    /\ report_sales = <<>>
    /\ sell_state \in [Users -> SellStates]
    /\ user_data \in {d \in [Users -> UNION {SellScratch(inventory, st) : st \in SellStates}] :
                         \A u \in Users : d[u] \in SellScratch(inventory, sell_state[u])}
    /\ add_state = [u \in Users |-> "END"]
    /\ login_state = [u \in Users |-> "END"]
    /\ authenticated_users = EmptyDict
    /\ user_sessions = EmptyDict
    /\ now = 0
    /\ event = NoEvent
    /\ successes = [i \in ItemIds |-> 0]
    /\ bulk = NoBulk

HandlerNext ==
    \/ \E u \in Users :
        \/ SellFlowStart(u)
        \/ \E text \in SellQueries : SellFlowQuery(u, text)
        \/ \E index \in 0..1 : SellFlowSelect(u, index)
        \/ \E m \in PaymentMethods : SellFlowPayment(u, m)
        \/ \E text \in SellPrices : SellFlowPrice(u, text)
        \/ Cancel(u)
    \/ CleanupSoldOutItems

HandlerSpec == HandlerInit /\ [][HandlerNext]_vars

(***************************************************************************)
(* The ledger functions called in any order, with any arguments            *)
(***************************************************************************)
LedgerNext ==
    \/ \E item_id \in ItemIds \cup {Cardinality(ItemIds) + 1}, amount \in (-1)..MaxAmount :
           ReduceInventoryQuantity(item_id, amount)
    \/ CleanupSoldOutItems

LedgerSpec == Init /\ [][LedgerNext]_vars

(***************************************************************************)
(* The handlers that prompt for a price or a quantity, each from the       *)
(* states it is registered for                                             *)
(***************************************************************************)
\* the scratch data the add handlers before a state have stored on the way
\* to it
AddScratch(state) ==
    LET shown ==
            {show_results(Put(Put(EmptyDict, "query", Strip(Chars(q))), "page", pg),
                          n).ud :
                q \in AddQueries, pg \in 1..MaxPage, n \in PageSizes \ {0}}
        chosen == {Put(d, "release", [page |-> d["results"].page, index |-> 0]) :
                      d \in shown}
        graded == {handle_condition_select(d, c, sug).ud :
                      d \in chosen, c \in ConditionInputs, sug \in Suggestions}
        priced == {handle_price_input(d, t).ud :
                      d \in graded,
                      t \in {x \in AddPrices :
                                \E g \in graded :
                                    handle_price_input(g, x).state = "ASK_QUANTITY"}}
    IN  IF state = "ASK_PRICE" THEN graded
        ELSE {d \in priced : Has(d, "final_price")}

PromptInit ==
    /\ inventory \in InitialInventories
    /\ inventory0 = inventory
    /\ sales = <<>>
    /\ report_sales = <<>>
    /\ login_state = [u \in AppUsers |-> "END"]
    /\ \E st \in {"SELL_PRICE", "ASK_PRICE", "ASK_QUANTITY"} :
           /\ sell_state = [u \in AppUsers |-> IF st = "SELL_PRICE" THEN st ELSE "END"]
           /\ add_state = [u \in AppUsers |-> IF st = "SELL_PRICE" THEN "END" ELSE st]
           /\ user_data \in [AppUsers -> IF st = "SELL_PRICE"
                                         THEN SellScratch(inventory, st)
                                         ELSE AddScratch(st)]
    /\ authenticated_users = EmptyDict
    /\ user_sessions = EmptyDict
    /\ now = 0
    /\ event = NoEvent
    /\ successes = [i \in ItemIds |-> 0]
    /\ bulk = NoBulk

PromptNext ==
    \E u \in AppUsers :
        \/ \E text \in SellPrices : SellFlowPrice(u, text)
        \/ \E text \in AddPrices : HandlePriceInput(u, text)
        \/ \E text \in AddQuantities : HandleQuantityInput(u, text)

PromptSpec == PromptInit /\ [][PromptNext]_vars

(***************************************************************************)
(* bulk_import.py run on a sheet                                           *)
(***************************************************************************)
RECURSIVE Sheets(_)
Sheets(n) ==
    IF n = 0 THEN {<<>>}
    ELSE Sheets(n - 1) \cup {Append(r, c) : r \in {x \in Sheets(n - 1) : Len(x) = n - 1},
                                            c \in Cells}

BulkInit ==
    /\ inventory \in InitialInventories
    /\ inventory0 = inventory
    /\ sales = <<>>
    /\ report_sales = <<>>
    /\ sell_state = [u \in AppUsers |-> "END"]
    /\ add_state = [u \in AppUsers |-> "END"]
    /\ login_state = [u \in AppUsers |-> "END"]
    /\ user_data = [u \in AppUsers |-> EmptyDict]
    /\ authenticated_users = EmptyDict
    /\ user_sessions = EmptyDict
    /\ now = 0
    /\ event = NoEvent
    /\ successes = [i \in ItemIds |-> 0]
    /\ \E rows \in Sheets(2 * MaxPairs), fails \in SUBSET (1..MaxPairs) :
           bulk = [NoBulk EXCEPT !.rows = rows, !.fails = fails]

BulkNext == BulkImportFromExcel

BulkSpec == BulkInit /\ [][BulkNext]_vars

(***************************************************************************)
(* Two chats talking to the application at once                            *)
(***************************************************************************)
\* the state main() leaves, with the chats of Users and nobody logged in
PairInit ==
    /\ inventory \in InitialInventories
    /\ inventory0 = inventory
    /\ sales = <<>>
    /\ report_sales = <<>>
    /\ sell_state = [u \in Users |-> "END"]
    /\ add_state = [u \in Users |-> "END"]
    /\ login_state = [u \in Users |-> "END"]
    /\ user_data = [u \in Users |-> EmptyDict]
    /\ authenticated_users = EmptyDict
    /\ user_sessions = EmptyDict
    /\ now = 0
    /\ event = NoEvent
    /\ successes = [i \in ItemIds |-> 0]
    /\ bulk = NoBulk

\* the entry points of the two flows and the handlers of their first states
PairNext ==
    \E u \in Users :
        \/ SellFlowStart(u)
        \/ \E text \in SellQueries : SellFlowQuery(u, text)
        \/ StartAdd(u)
        \/ \E text \in AddQueries, n \in PageSizes \cup {-1} : HandleSearch(u, text, n)
        \/ Cancel(u)

PairSpec == PairInit /\ [][PairNext]_vars

(***************************************************************************)
(* The application over sales tables that already hold records             *)
(***************************************************************************)
\* the sales tables the application may find at start: init_db and
\* init_report_db create a table only when it is missing, so the records
\* of the files stay
PriorSales ==
    LET r1 == SaleRow(ItemRow(1, 1), 40000, "cash")
        r2 == SaleRow(ItemRow(2, 1), 20000, "pos")
    IN  {<<>>, <<r1, r2>>}

ArchiveInit ==
    /\ inventory \in InitialInventories
    /\ inventory0 = inventory
    /\ sales \in PriorSales
    /\ report_sales \in PriorSales
    /\ sell_state \in [AppUsers -> SellStates]
    /\ user_data \in [AppUsers -> UNION {SellScratch(inventory, st) : st \in SellStates}]
    /\ \A u \in AppUsers : user_data[u] \in SellScratch(inventory, sell_state[u])
    /\ add_state = [u \in AppUsers |-> "END"]
    /\ login_state = [u \in AppUsers |-> "END"]
    /\ authenticated_users = EmptyDict
    /\ user_sessions = [u \in AppUsers |-> SESSION_TIMEOUT_HOURS]
    /\ now = 0
    /\ event = NoEvent
    /\ successes = [i \in ItemIds |-> 0]
    /\ bulk = NoBulk

\* every operation that touches the tables or reads the sale records
ArchiveNext ==
    \/ \E u \in AppUsers :
        \/ SellFlowStart(u)
        \/ \E text \in SellQueries : SellFlowQuery(u, text)
        \/ \E index \in 0..1 : SellFlowSelect(u, index)
        \/ \E m \in PaymentMethods : SellFlowPayment(u, m)
        \/ \E text \in SellPrices : SellFlowPrice(u, text)
        \/ Cancel(u)
        \/ \E cmd \in ReportCommands : ReportCommand(u, cmd)
    \/ CleanupSoldOutItems

ArchiveSpec == ArchiveInit /\ [][ArchiveNext]_vars

(***************************************************************************)
(* The methods of AuthManager in any order, as time passes                 *)
(***************************************************************************)
AuthManagerInit ==
    /\ inventory = [i \in ItemIds |-> ItemRow(i, 1)]
    /\ inventory0 = inventory
    /\ sales = <<>>
    /\ report_sales = <<>>
    /\ sell_state = [u \in AppUsers |-> "END"]
    /\ add_state = [u \in AppUsers |-> "END"]
    /\ login_state = [u \in AppUsers |-> "END"]
    /\ user_data = [u \in AppUsers |-> EmptyDict]
    /\ authenticated_users = EmptyDict
    /\ user_sessions \in {EmptyDict, [u \in {1} |-> SESSION_TIMEOUT_HOURS]}
    /\ now = 0
    /\ event = NoEvent
    /\ successes = [i \in ItemIds |-> 0]
    /\ bulk = NoBulk

AuthManagerNext ==
    \/ \E u \in AppUsers :
        \/ AuthenticateUser(u)
        \/ IsAuthenticatedCall(u)
        \/ AuthLogoutUser(u)
    \/ CleanupExpiredSessions
    \/ Tick

AuthManagerSpec == AuthManagerInit /\ [][AuthManagerNext]_vars

(***************************************************************************)
(* The login handlers and the commands that ask for a session, as time     *)
(* passes                                                                  *)
(***************************************************************************)
SessionNext ==
    \/ \E u \in AppUsers :
        \/ StartLogin(u)
        \/ \E correct \in BOOLEAN : HandlePassword(u, correct)
        \/ LogoutUser(u)
        \/ \E cmd \in ReportCommands : ReportCommand(u, cmd)
        \/ Cancel(u)
    \/ CleanupExpiredSessions
    \/ Tick

SessionSpec == AuthManagerInit /\ [][SessionNext]_vars

(***************************************************************************)
(* Properties of the ledger                                                *)
(***************************************************************************)
\* the rows a read operation hands to its caller
ReadRows(rows) == {rows[k] : k \in 1..Len(rows)}

\* C1: whatever calls of reduce_inventory_quantity are made, in whatever
\* order and with whatever arguments, no stored row has a negative quantity.
C1_QuantityNeverNegative ==
    \A i \in DOMAIN inventory : inventory[i].quantity >= 0

\* a call that asked for more than the row held was made and refused
C1_Witness ==
    /\ event.name = "reduce_inventory_quantity"
    /\ event.call.found /\ event.call.amount > event.call.before
    /\ ~event.call.ok
    /\ inventory[event.call.id].quantity = event.call.before

C3_ReadsReturnOnlyStock ==
    /\ \A q \in SellQueries :
           \A row \in ReadRows(search_inventory(inventory, Strip(Chars(q)))) :
               row.quantity > 0
    /\ \A row \in ReadRows(get_all_inventory(inventory)) : row.quantity > 0
    /\ \A i \in DOMAIN inventory :
           \A row \in ReadRows(get_inventory_by_id(inventory, i)) : row.quantity > 0

\* C4: a call reduce_inventory_quantity(id, by) on a missing row, or on a
\* row holding fewer than by, returns False and leaves the table as it was;
\* any other call with by >= 1 returns True, takes exactly by from the row
\* and leaves every other row as it was.
C4_ReduceAllOrNothing ==
    [][event'.name = "reduce_inventory_quantity" =>
          LET c == event'.call
          IN  /\ (~c.found \/ c.before < c.amount) =>
                     ~c.ok /\ inventory' = inventory
              /\ (c.found /\ c.before >= c.amount /\ c.amount >= 1) =>
                     /\ c.ok
                     /\ inventory' =
                            [inventory EXCEPT ![c.id].quantity = @ - c.amount]]_vars

\* a call for more than one copy has been granted, and the row holds that
\* many fewer
C4_Witness ==
    /\ event.name = "reduce_inventory_quantity"
    /\ event.call.ok /\ event.call.amount = MaxAmount
    /\ inventory[event.call.id].quantity = event.call.before - MaxAmount

\* C5: once a decrement has been granted that takes the last copy, the row
\* is gone from the table.
C5_SoldOutRowRemoved ==
    (event.call.made /\ event.call.ok /\ event.call.before = event.call.amount)
        => event.call.id \notin DOMAIN inventory

(***************************************************************************)
(* Properties of the conversations                                         *)
(***************************************************************************)
\* C6: a conversation enters or moves to a state in which it waits, and the
\* inventory or a sales table changes, only on an update of a chat that is
\* authenticated when it sends it.
C6_OnlyAuthenticatedUsersAct ==
    [][\A u \in DOMAIN sell_state :
          (/\ event'.user = u
           /\ \/ sell_state'[u] \notin {sell_state[u], "END"}
              \/ add_state'[u] \notin {add_state[u], "END"}
              \/ inventory' # inventory
              \/ sales' # sales
              \/ report_sales' # report_sales)
             => IsAuthenticated(u)]_vars

\* the price a message accepted in SELL_PRICE stands for: the listed price
\* for 'ok', else the number it gives
AcceptedPrice(item, text) ==
    LET msg == Strip(Chars(text))
    IN  IF LowerText(msg) = <<"o", "k">> THEN <<item["price_gel"]>>
        ELSE IF ParseFloat(msg).ok /\ ParseFloat(msg).val >= 0
        THEN <<ParseFloat(msg).val>>
        ELSE <<>>

C8_RefusedDecrementWritesNoSale ==
    [][\A u \in DOMAIN sell_state :
          (/\ event'.name = "sell_price" /\ event'.user = u
           /\ sell_state[u] = "SELL_PRICE"
           /\ event'.call.made /\ ~event'.call.ok)
             => /\ sales' = sales
                /\ report_sales' = report_sales
                /\ inventory' = inventory
                /\ sell_state'[u] = "END"]_vars

\* a price was accepted, the decrement of the pinned row was refused, and
\* the conversation has ended with nothing written down
C8_Witness ==
    /\ event.name = "sell_price" /\ event.call.made /\ ~event.call.ok
    /\ event.reply = "unable_to_complete_sale"
    /\ sell_state[event.user] = "END"
    /\ sales = <<>> /\ report_sales = <<>>

C10_CancelEndsEveryFlow ==
    [][\A u \in DOMAIN sell_state :
          (event'.name = "cancel" /\ event'.user = u)
             => /\ add_state[u] # "END" => add_state'[u] = "END"
                /\ sell_state[u] # "END" => sell_state'[u] = "END"]_vars

\* C11: a step that handles /cancel, in whatever state the conversations of
\* the chat are, leaves the inventory table and both sales tables as they
\* were.
C11_CancelChangesNoStore ==
    [][event'.name = "cancel" =>
          /\ inventory' = inventory
          /\ sales' = sales
          /\ report_sales' = report_sales]_vars

\* a sale with a row pinned and the payment chosen has been cancelled, and
\* the pinned row holds what it held
C11_Witness ==
    /\ event.name = "cancel" /\ event.reply = "sale_cancelled"
    /\ sell_state[event.user] = "END"
    /\ Has(user_data[event.user], "payment_method")
    /\ LET id == user_data[event.user]["selected_item"]["id"]
       IN  /\ id \in DOMAIN inventory
           /\ inventory[id].quantity = inventory0[id].quantity
    /\ sales = <<>> /\ report_sales = <<>>

\* C12: while neither conversation of a chat is running, none of the scratch
\* fields of a finished run (query, result list, selected item or release,
\* condition, price, payment method) is left in the chat's user_data.
C12_TerminalClearsScratch ==
    \A u \in DOMAIN sell_state :
        (sell_state[u] = "END" /\ add_state[u] = "END") => user_data[u] = EmptyDict

(***************************************************************************)
(* Properties of the prompts                                               *)
(***************************************************************************)
\* the messages the prompts refuse: in SELL_PRICE a text other than 'ok'
\* that is no number or a negative one, in ASK_PRICE a text that is no
\* number (and not 'ok' with a suggestion at hand), in ASK_QUANTITY a text
\* that is no whole number of at least 1
InvalidSellPrice(text) ==
    LET msg == Strip(Chars(text))
    IN  /\ LowerText(msg) # <<"o", "k">>
        /\ ~ParseFloat(msg).ok \/ ParseFloat(msg).val < 0

InvalidAddPrice(ud, text) ==
    LET msg == Strip(Chars(text))
    IN  /\ ~(/\ LowerText(msg) = <<"o", "k">>
             /\ Has(ud, "suggested_price") /\ ud["suggested_price"] # <<>>)
        /\ ~ParseFloat(msg).ok

InvalidQuantity(text) ==
    LET qty == ParseInt(Strip(Chars(text)))
    IN  ~qty.ok \/ qty.val < 1

\* what sell_flow_price makes of a message, from given scratch data and
\* stores
SellPriceOutcome(ud, inv, sl, rs, text) ==
    LET in == sell_price_input(ud, text)
    IN  IF in.kind = "price"
        THEN [kind |-> in.kind, sale |-> <<sell_process_sale(ud, inv, sl, rs, in.price)>>]
        ELSE [kind |-> in.kind, sale |-> <<>>]

\* C13: a refused price in SELL_PRICE or ASK_PRICE, and a refused quantity
\* in ASK_QUANTITY, leaves the conversation in its state and the scratch
\* data and every store as they were, so that whatever message follows is
\* handled exactly as it would have been without the refused one.
C13_InvalidInputChangesNothing ==
    [][\A u \in DOMAIN sell_state :
          (/\ event'.user = u
           /\ \/ /\ event'.name = "sell_price" /\ sell_state[u] = "SELL_PRICE"
                 /\ InvalidSellPrice(event'.arg)
              \/ /\ event'.name = "add_price" /\ add_state[u] = "ASK_PRICE"
                 /\ InvalidAddPrice(user_data[u], event'.arg)
              \/ /\ event'.name = "add_quantity" /\ add_state[u] = "ASK_QUANTITY"
                 /\ InvalidQuantity(event'.arg))
             => /\ UNCHANGED <<inventory, sales, report_sales, sell_state,
                               add_state, user_data>>
                /\ ~event'.raised
                /\ \A t \in SellPrices :
                       SellPriceOutcome(user_data'[u], inventory', sales',
                                        report_sales', t)
                         = SellPriceOutcome(user_data[u], inventory, sales,
                                            report_sales, t)
                /\ \A t \in AddPrices :
                       handle_price_input(user_data'[u], t)
                         = handle_price_input(user_data[u], t)]_vars

\* a negative price has been refused in SELL_PRICE: the conversation still
\* waits for the price and the pinned row holds what it held
C13_Witness ==
    /\ event.name = "sell_price" /\ event.arg = "-5"
    /\ event.reply = "negative_price"
    /\ sell_state[event.user] = "SELL_PRICE"
    /\ inventory = inventory0 /\ sales = <<>>

(***************************************************************************)
(* Properties of the sale                                                  *)
(***************************************************************************)
\* the sale records of the main table that describe row i
SalesOf(i) ==
    {k \in 1..Len(sales) :
        /\ sales[k].artist_album = inventory0[i].artist_album
        /\ sales[k].condition = inventory0[i].condition}

ImportablePairs(rows, fails) ==
    {p \in 1..((Len(rows) + 1) \div 2) :
        /\ rows[2 * p - 1] # "none"
        /\ 2 * p <= Len(rows)
        /\ rows[2 * p] # "none"
        /\ FloatOfCell(rows[2 * p])
        /\ p \notin fails}

\* C16: bulk_import_from_excel run on a sheet goes through every pair,
\* skipping those without title, without price, with an unparseable price
\* or with a failing lookup or insert, and returns the number of the others.
C16_BulkImportCountsValidPairs ==
    bulk.done =>
        /\ ~bulk.raised
        /\ bulk.added = Cardinality(ImportablePairs(bulk.rows, bulk.fails))

(***************************************************************************)
(* Properties of the sessions                                              *)
(***************************************************************************)
\* C17: /sell sent by a chat always leaves its sell conversation in
\* SELL_QUERY with empty scratch data, and /add its add conversation in
\* SEARCH_INPUT with empty scratch data, also when a run of that
\* conversation was in progress.
C17_EntryCommandRestartsFlow ==
    [][\A u \in DOMAIN sell_state :
          /\ (event'.name = "sell" /\ event'.user = u)
                => sell_state'[u] = "SELL_QUERY" /\ user_data'[u] = EmptyDict
          /\ (event'.name = "add" /\ event'.user = u)
                => add_state'[u] = "SEARCH_INPUT" /\ user_data'[u] = EmptyDict]_vars

(***************************************************************************)
(* Properties of the Add-Record conversation                               *)
(***************************************************************************)
\* the non-empty substrings of a text
Substrings(t) == {SubSeq(t, a, b) : a \in 1..Len(t), b \in 1..Len(t)} \ {<<>>}

\* C18: when a run of the add conversation is completed by an accepted
\* quantity n, with release title T, grade c and price p stored, the
\* inventory holds a new row that search_inventory returns for every
\* substring of T, in either case, with quantity n, price p and grade c.
C18_AddedItemIsFound ==
    [][\A u \in DOMAIN add_state :
          (/\ event'.name = "add_quantity" /\ event'.user = u
           /\ add_state[u] = "ASK_QUANTITY"
           /\ ~InvalidQuantity(event'.arg)
           /\ Has(user_data[u], "release") /\ Has(user_data[u], "condition")
           /\ Has(user_data[u], "final_price"))
             => LET row == AddRow(user_data[u]["release"], user_data[u]["condition"],
                                  user_data[u]["final_price"],
                                  ParseInt(Strip(Chars(event'.arg))).val)
                IN  \A q \in Substrings(row.artist_album)
                            \cup Substrings(LowerText(row.artist_album)) :
                        \E found \in ReadRows(search_inventory(inventory', q)) :
                            /\ found.id \notin DOMAIN inventory
                            /\ found.artist_album = row.artist_album
                            /\ found.condition = row.condition
                            /\ found.price_gel = row.price_gel
                            /\ found.quantity = row.quantity]_vars

(***************************************************************************)
(* Properties of error recovery                                            *)
(***************************************************************************)
\* the scratch fields the handlers of a state read without a default
RequiredScratch(state) ==
    CASE state = "SHOW_RESULTS" -> {"query", "page", "results"}
      [] state = "ASK_CONDITION" -> {"release"}
      [] state = "ASK_PRICE" -> {"release", "condition"}
      [] state = "ASK_QUANTITY" -> {"release", "condition", "final_price"}
      [] state = "SELL_SELECT" -> {"found_items"}
      [] state = "SELL_PAYMENT" -> {"selected_item"}
      [] state = "SELL_PRICE" -> {"selected_item", "payment_method"}
      [] OTHER -> {}

\* the conversation was in state before and is in state after a step in
\* which a handler raised, with the scratch data ud before and after: it
\* has ended, or it is where it was with the fields of its state untouched
Recovered(before, after, ud, after_ud) ==
    \/ after = "END"
    \/ /\ after = before
       /\ \A k \in RequiredScratch(before) :
              Has(ud, k) => Has(after_ud, k) /\ after_ud[k] = ud[k]

\* C19: a step in which a handler raises leaves each conversation of the
\* chat ended, or in the state it was in with that state's scratch fields
\* as they were; and no conversation is ever in a state one of whose
\* scratch fields is missing.
C19_NoDanglingFlow ==
    [][\A u \in DOMAIN sell_state :
          /\ (event'.raised /\ event'.user = u)
                => /\ Recovered(add_state[u], add_state'[u], user_data[u], user_data'[u])
                   /\ Recovered(sell_state[u], sell_state'[u], user_data[u], user_data'[u])
          /\ \A k \in RequiredScratch(add_state'[u]) \cup RequiredScratch(sell_state'[u]) :
                 Has(user_data'[u], k)]_vars

C21_OtherUsersUntouched ==
    [][\A u \in DOMAIN sell_state :
          event'.user # u
             => /\ sell_state'[u] = sell_state[u]
                /\ add_state'[u] = add_state[u]
                /\ login_state'[u] = login_state[u]
                /\ user_data'[u] = user_data[u]]_vars

\* user 1 has started a sale while user 2 is looking at a page of releases
C21_Witness ==
    /\ event.user = 1 /\ event.name = "sell"
    /\ sell_state[1] = "SELL_QUERY" /\ user_data[1] = EmptyDict
    /\ 2 \in DOMAIN add_state
    /\ add_state[2] = "SHOW_RESULTS" /\ Has(user_data[2], "results")

\* the events the handlers of each conversation record, and the keys of
\* context.user_data they store
SellEvents == {"sell", "sell_query", "sell_select", "sell_payment", "sell_price"}
AddEvents == {"add", "add_search", "add_page", "add_select", "add_condition",
              "add_price", "add_quantity"}
SellScratchKeys == {"query", "found_items", "selected_item", "payment_method"}
AddScratchKeys == {"query", "page", "results", "release", "condition",
                   "suggested_price", "final_price"}

\* the keys of keys present in ud are present in after with the same value
Kept(keys, ud, after) ==
    \A k \in keys : Has(ud, k) => Has(after, k) /\ after[k] = ud[k]

\* C22: a step of the sell conversation keeps the scratch fields of the
\* same user's running add conversation, and a step of the add conversation
\* keeps those of the running sell conversation.
C22_FlowsIndependent ==
    [][\A u \in DOMAIN sell_state :
          /\ (event'.user = u /\ event'.name \in SellEvents /\ add_state[u] # "END")
                => Kept(AddScratchKeys, user_data[u], user_data'[u])
          /\ (event'.user = u /\ event'.name \in AddEvents /\ sell_state[u] # "END")
                => Kept(SellScratchKeys, user_data[u], user_data'[u])]_vars

(***************************************************************************)
(* Properties of the order of the states                                   *)
(***************************************************************************)
\* the steps the state table of start_sell_flow describes: stay (re-prompt),
\* one state forward, or to the end; a run starts in SELL_QUERY
SellOrder(before, after) ==
    \/ after = before
    \/ after = "END"
    \/ <<before, after>> \in {<<"END", "SELL_QUERY">>, <<"SELL_QUERY", "SELL_SELECT">>,
                             <<"SELL_SELECT", "SELL_PAYMENT">>,
                             <<"SELL_PAYMENT", "SELL_PRICE">>}

\* C23: the sell conversation of a user moves only along SELL_QUERY,
\* SELL_SELECT, SELL_PAYMENT, SELL_PRICE, END, and an event of a user calls
\* the decrement or changes a table only in SELL_PRICE, for the pinned item,
\* with a payment method cash or pos stored.
C23_SellOrderAndSaleOnlyAtPrice ==
    [][\A u \in DOMAIN sell_state :
          /\ SellOrder(sell_state[u], sell_state'[u])
          /\ (/\ event'.user = u
              /\ \/ event'.call.made
                 \/ inventory' # inventory
                 \/ sales' # sales
                 \/ report_sales' # report_sales)
                => /\ sell_state[u] = "SELL_PRICE"
                   /\ event'.name = "sell_price"
                   /\ Has(user_data[u], "selected_item")
                   /\ Has(user_data[u], "payment_method")
                   /\ user_data[u]["payment_method"] \in PaymentMethods
                   /\ event'.call.made
                   /\ event'.call.id = user_data[u]["selected_item"]["id"]]_vars

\* a sale paid by card has taken the pinned copy in SELL_PRICE
C23_Witness ==
    /\ event.name = "sell_price" /\ event.call.made /\ event.call.ok
    /\ sell_state[event.user] = "END"
    /\ user_data[event.user]["payment_method"] = "pos"
    /\ event.call.id = user_data[event.user]["selected_item"]["id"]

\* the steps the state table of start_add_flow describes: stay, or one state
\* forward
AddOrder(before, after) ==
    \/ after = before
    \/ <<before, after>> \in {<<"END", "SEARCH_INPUT">>, <<"SEARCH_INPUT", "SHOW_RESULTS">>,
                             <<"SHOW_RESULTS", "ASK_CONDITION">>,
                             <<"ASK_CONDITION", "ASK_PRICE">>,
                             <<"ASK_PRICE", "ASK_QUANTITY">>, <<"ASK_QUANTITY", "END">>}

\* the replies of handle_quantity_input after it has called save_to_inventory
SaveReplies == {"added_to_inventory", "error_saving_to_inventory"}

\* C24: the add conversation of a user moves only along SEARCH_INPUT,
\* SHOW_RESULTS, ASK_CONDITION, ASK_PRICE, ASK_QUANTITY, END, and
\* save_to_inventory is called (and a row appears) only on the step from
\* ASK_QUANTITY to END, with a release, one of the 8 grades and a final price
\* stored.
C24_AddOrderAndInsertOnlyAtQuantity ==
    [][\A u \in DOMAIN add_state :
          /\ AddOrder(add_state[u], add_state'[u])
          /\ (/\ event'.user = u
              /\ \/ event'.reply \in SaveReplies
                 \/ ~(DOMAIN inventory' \subseteq DOMAIN inventory))
                => /\ add_state[u] = "ASK_QUANTITY" /\ add_state'[u] = "END"
                   /\ event'.name = "add_quantity"
                   /\ Has(user_data[u], "release")
                   /\ Has(user_data[u], "condition")
                   /\ \E k \in 1..Len(CONDITION_OPTIONS) :
                          CONDITION_OPTIONS[k] = user_data[u]["condition"]
                   /\ Has(user_data[u], "final_price")]_vars

\* a run has gone through every state and has called save_to_inventory
C24_Witness ==
    /\ event.name = "add_quantity" /\ event.reply \in SaveReplies
    /\ add_state[event.user] = "END"
    /\ Has(user_data[event.user], "release")
    /\ Has(user_data[event.user], "final_price")

\* C25: an event that calls the decrement finds the sell conversation in
\* SELL_PRICE and leaves it ended, whatever the call returns and whatever
\* happens to the sale record; and an ended conversation only starts again
\* with /sell, in SELL_QUERY, with empty scratch data and without a call.
C25_OneDecrementPerRun ==
    [][\A u \in DOMAIN sell_state :
          /\ (event'.user = u /\ event'.call.made)
                => /\ sell_state[u] = "SELL_PRICE"
                   /\ sell_state'[u] = "END"
                   /\ event'.call.amount = 1
          /\ (sell_state[u] = "END" /\ sell_state'[u] # "END")
                => /\ event'.user = u /\ event'.name = "sell"
                   /\ sell_state'[u] = "SELL_QUERY"
                   /\ user_data'[u] = EmptyDict
                   /\ ~event'.call.made]_vars

\* the copy was taken, recording the sale failed, and the run has ended
C25_Witness ==
    /\ event.name = "sell_price" /\ event.call.made /\ event.call.ok
    /\ event.reply = "error_processing_sale"
    /\ sell_state[event.user] = "END"

(***************************************************************************)
(* Properties of the add conversation                                      *)
(***************************************************************************)
\* C26: the page cursor is at least 1; a search sets it to 1; next adds 1
\* and prev takes 1 off but not below 1, both leaving the conversation in
\* SHOW_RESULTS; and next moves on from the cursor's page only when the
\* results held are those of that page and are a full page.
C26_PageCursor ==
    [][\A u \in DOMAIN add_state :
          /\ Has(user_data'[u], "page") => user_data'[u]["page"] >= 1
          /\ (event'.user = u /\ event'.name = "add_search")
                => user_data'[u]["page"] = 1
          /\ (event'.user = u /\ event'.name = "add_page" /\ Has(user_data[u], "page"))
                => LET page == user_data[u]["page"]
                       after == user_data'[u]["page"]
                   IN  /\ add_state'[u] = "SHOW_RESULTS"
                       /\ event'.arg = "prev"
                             => after = IF page > 1 THEN page - 1 ELSE 1
                       /\ event'.arg = "next"
                             => /\ after = page + 1
                                /\ user_data[u]["results"].page = page
                                /\ user_data[u]["results"].n = PAGE_SIZE]_vars

\* the rows of after that before does not hold
NewRows(before, after) == {after[i] : i \in DOMAIN after \ DOMAIN before}

\* C27: in ASK_QUANTITY a text that is no integer, or an integer below 1,
\* is answered with the prompt and changes neither the state nor the
\* inventory; an integer n >= 1 adds exactly one row, of quantity n, and ends
\* the conversation; every row added has a quantity of at least 1.
C27_QuantityPrompt ==
    [][\A u \in DOMAIN add_state :
          /\ (/\ event'.user = u /\ event'.name = "add_quantity"
              /\ Has(user_data[u], "release") /\ Has(user_data[u], "condition")
              /\ Has(user_data[u], "final_price"))
                => IF InvalidQuantity(event'.arg)
                   THEN /\ event'.reply = "invalid_quantity"
                        /\ add_state'[u] = "ASK_QUANTITY"
                        /\ inventory' = inventory
                   ELSE /\ add_state'[u] = "END"
                        /\ Cardinality(NewRows(inventory, inventory')) = 1
                        /\ \A r \in NewRows(inventory, inventory') :
                               r.quantity = ParseInt(Strip(Chars(event'.arg))).val
                        /\ \A i \in DOMAIN inventory : inventory'[i] = inventory[i]
          /\ \A r \in NewRows(inventory, inventory') : r.quantity >= 1]_vars

\* the suggestion stored for the run, <<>> when there is none
StoredSuggestion(ud) ==
    IF Has(ud, "suggested_price") THEN ud["suggested_price"] ELSE <<>>

\* C28: in ASK_PRICE 'ok' with a suggestion stores the suggestion as final
\* price; 'ok' without one is answered with the prompt, the conversation
\* stays in ASK_PRICE and the scratch data is as it was; and whenever a
\* final price is stored or changed, it is the suggestion taken with 'ok' or
\* the number the message gives.
C28_OkNeedsSuggestion ==
    [][\A u \in DOMAIN add_state :
          LET msg == Strip(Chars(event'.arg))
              said_ok == LowerText(msg) = <<"o", "k">>
              sug == StoredSuggestion(user_data[u])
          IN  /\ (/\ event'.user = u /\ event'.name = "add_price" /\ said_ok)
                    => IF sug # <<>>
                       THEN /\ add_state'[u] = "ASK_QUANTITY"
                            /\ user_data'[u]["final_price"] = Round2(sug[1])
                       ELSE /\ add_state'[u] = "ASK_PRICE"
                            /\ user_data'[u] = user_data[u]
                            /\ event'.reply = "invalid_price"
              /\ (/\ Has(user_data'[u], "final_price")
                  /\ \/ ~Has(user_data[u], "final_price")
                     \/ user_data'[u]["final_price"] # user_data[u]["final_price"])
                    => /\ event'.user = u /\ event'.name = "add_price"
                       /\ \/ /\ said_ok /\ sug # <<>>
                             /\ user_data'[u]["final_price"] = Round2(sug[1])
                          \/ /\ ParseFloat(msg).ok
                             /\ user_data'[u]["final_price"]
                                  = Round2(ParseFloat(msg).val)]_vars

\* 'ok' was sent with no suggestion stored: the prompt is repeated and no
\* final price is stored
C28_Witness ==
    /\ event.name = "add_price" /\ event.arg = "ok"
    /\ event.reply = "invalid_price"
    /\ add_state[event.user] = "ASK_PRICE"
    /\ Has(user_data[event.user], "suggested_price")
    /\ user_data[event.user]["suggested_price"] = <<>>
    /\ ~Has(user_data[event.user], "final_price")

\* C29: in ASK_CONDITION, with a release stored, a lookup that fails or
\* that answers without a value for the chosen grade stores "no suggestion"
\* and moves the conversation to ASK_PRICE; no outcome of the lookup makes
\* the handler raise or leaves the conversation in ASK_CONDITION.
C29_LookupFailureDegrades ==
    [][\A u \in DOMAIN add_state :
          (/\ event'.user = u /\ event'.name = "add_condition"
           /\ Has(user_data[u], "release"))
             => /\ ~event'.raised
                /\ add_state'[u] = "ASK_PRICE"
                /\ Has(user_data'[u], "suggested_price")
                /\ event'.arg \in {"error", "empty", "other_grade", "zero"}
                      => /\ user_data'[u]["suggested_price"] = <<>>
                         /\ event'.reply = "no_price_suggestion"
                /\ event'.arg = "value"
                      => user_data'[u]["suggested_price"] # <<>>]_vars

\* the lookup failed: no suggestion is stored and the price is asked for
C29_Witness ==
    /\ event.name = "add_condition" /\ event.arg = "error"
    /\ add_state[event.user] = "ASK_PRICE"
    /\ user_data[event.user]["suggested_price"] = <<>>
    /\ event.reply = "no_price_suggestion"

(***************************************************************************)
(* Properties of the sale confirmation and of the sale records             *)
(***************************************************************************)
\* the quantity the table tbl holds for the row item_id, 0 when the row is
\* gone
StoredQuantity(tbl, item_id) ==
    IF item_id \in DOMAIN tbl THEN tbl[item_id].quantity ELSE 0

C32_SaleRecordsAppendOnly ==
    [][/\ Len(sales') >= Len(sales)
       /\ SubSeq(sales', 1, Len(sales)) = sales
       /\ Len(report_sales') >= Len(report_sales)
       /\ SubSeq(report_sales', 1, Len(report_sales)) = report_sales]_vars

\* the last copy of a title was taken and its sold-out row removed: the
\* records of the title are still in both tables
C32_Witness ==
    /\ event.name = "cleanup_sold_out_items"
    /\ \E i \in DOMAIN inventory0 \ DOMAIN inventory :
           /\ successes[i] >= 1
           /\ \E k \in 1..Len(sales) : sales[k].artist_album = inventory0[i].artist_album
           /\ \E k \in 1..Len(report_sales) :
                  report_sales[k].artist_album = inventory0[i].artist_album

(***************************************************************************)
(* Properties of the search                                                *)
(***************************************************************************)
\* q is a run of consecutive characters of s
IsSubstring(q, s) ==
    \E a \in 1..(Len(s) + 1) : \E b \in (a - 1)..Len(s) : SubSeq(s, a, b) = q

\* the stored text of a grade
ConditionChars(c) ==
    CASE c = "nm" -> <<"n", "m">>
      [] c = "vg+" -> <<"v", "g", "+">>
      [] OTHER -> <<c>>

\* C33: search_inventory(query) returns exactly the rows with quantity > 0
\* whose lower-cased artist_album, genre, style or label holds the
\* lower-cased query, each once, ordered by artist_album and, among equal
\* artist_album, by condition.
C33_SearchExactAndOrdered ==
    \A t \in SellQueries :
        LET query == Strip(Chars(t))
            rows == search_inventory(inventory, query)
            Holds(r) == \/ IsSubstring(LowerText(query), LowerText(r.artist_album))
                        \/ IsSubstring(LowerText(query), LowerText(r.genre))
                        \/ IsSubstring(LowerText(query), LowerText(r.style))
                        \/ IsSubstring(LowerText(query), LowerText(r.label))
        IN  /\ ReadRows(rows) = {inventory[i] : i \in {j \in DOMAIN inventory :
                                      inventory[j].quantity > 0 /\ Holds(inventory[j])}}
            /\ \A k, l \in 1..Len(rows) :
                   k < l => /\ rows[k] # rows[l]
                            /\ ~TextLess(rows[l].artist_album, rows[k].artist_album)
                            /\ rows[k].artist_album = rows[l].artist_album
                                  => ~TextLess(ConditionChars(rows[l].condition),
                                               ConditionChars(rows[k].condition))

\* the successful decrements, over all rows
RECURSIVE SumOver(_, _)
SumOver(f, S) ==
    IF S = {} THEN 0
    ELSE LET i == CHOOSE x \in S : TRUE IN f[i] + SumOver(f, S \ {i})

\* C34: the successful decrements are at least as many as the records of
\* the main sales table, which are at least as many as those of the report
\* table, and every record of the report table is a record of the main
\* table, at the same place.
C34_DecrementBeforeSaleBeforeReport ==
    /\ SumOver(successes, DOMAIN successes) >= Len(sales)
    /\ Len(sales) >= Len(report_sales)
    /\ \A k \in 1..Len(report_sales) : report_sales[k] = sales[k]

\* two sell runs have each taken a copy
C34_Witness ==
    /\ event.name = "sell_price" /\ event.call.ok
    /\ SumOver(successes, DOMAIN successes) = 2
    /\ Len(sales) <= 2

(***************************************************************************)
(* Properties of the sessions                                              *)
(***************************************************************************)
\* C35: for every user, is_authenticated returns true exactly when
\* user_sessions holds a row of the user whose expires_at is later than
\* now.
C35_MemoryIsCacheOfSessions ==
    \A u \in DOMAIN login_state :
        IsAuthenticated(u) <=> (Has(user_sessions, u) /\ user_sessions[u] > now)

\* the session has run out and its row was cleaned up, the in-memory map
\* still holds the entry, and is_authenticated says no
C35_Witness ==
    /\ Has(authenticated_users, 1) /\ ~Has(user_sessions, 1)
    /\ ~IsAuthenticated(1)
    /\ event.name = "cleanup_expired_sessions"

\* C36: a user who was not authenticated is authenticated after a step, or
\* gets a new or changed row in user_sessions, only when handle_password
\* took the correct password in WAITING_FOR_PASSWORD; an entry of the
\* in-memory map is otherwise only a copy of the user's row; and a wrong
\* password ends the login conversation and leaves the map and the table
\* as they were.
C36_OnlyCorrectPasswordAuthenticates ==
    [][\A u \in DOMAIN login_state :
          LET by_password == /\ event'.user = u /\ event'.name = "password"
                             /\ event'.reply = "authentication_successful"
                             /\ login_state[u] = "WAITING_FOR_PASSWORD"
              authed_after == is_authenticated(authenticated_users', user_sessions',
                                               now', u).ok
          IN  /\ (~IsAuthenticated(u) /\ authed_after) => by_password
              /\ (/\ Has(user_sessions', u)
                  /\ ~Has(user_sessions, u) \/ user_sessions'[u] # user_sessions[u])
                    => by_password
              /\ (/\ Has(authenticated_users', u)
                  /\ \/ ~Has(authenticated_users, u)
                     \/ authenticated_users'[u] # authenticated_users[u])
                    => \/ by_password
                       \/ /\ Has(user_sessions, u)
                          /\ authenticated_users'[u] = user_sessions[u]
              /\ (/\ event'.user = u /\ event'.name = "password"
                  /\ event'.reply = "incorrect_password")
                    => /\ login_state'[u] = "END"
                       /\ UNCHANGED <<authenticated_users, user_sessions>>]_vars

\* a wrong password was sent: the login has ended and there is no session
C36_Witness ==
    /\ event.name = "password" /\ event.reply = "incorrect_password"
    /\ login_state[event.user] = "END"
    /\ ~Has(authenticated_users, event.user) /\ ~Has(user_sessions, event.user)
    /\ ~IsAuthenticated(event.user)

\* C37: after /logout the user is not authenticated, with no entry in the
\* in-memory map and, when a session was ended, no row in user_sessions;
\* and a user who is not authenticated stays so through every step, reads
\* and the passing of time included, except the step on which
\* handle_password takes the correct password.
C37_LogoutHoldsUntilLogin ==
    [][\A u \in DOMAIN login_state :
          LET authed_after == is_authenticated(authenticated_users', user_sessions',
                                               now', u).ok
          IN  /\ (event'.user = u /\ event'.name = "logout")
                    => /\ ~authed_after
                       /\ ~Has(authenticated_users', u)
                       /\ event'.reply = "logged_out" => ~Has(user_sessions', u)
              /\ (~IsAuthenticated(u) /\ authed_after)
                    => /\ event'.user = u /\ event'.name = "password"
                       /\ event'.reply = "authentication_successful"]_vars

\* a session that was in use has been ended by /logout
C37_Witness ==
    /\ event.name = "logout" /\ event.reply = "logged_out"
    /\ now >= 1
    /\ ~Has(authenticated_users, event.user) /\ ~Has(user_sessions, event.user)
    /\ ~IsAuthenticated(event.user)

\* C38: the expiry of a session changes only when authenticate_user sets
\* it; a read leaves user_sessions as it is and leaves or makes the
\* in-memory entry equal to the row's expiry; from the hour of the expiry on
\* is_authenticated is false, and it turns true again only through
\* authenticate_user; and a read drops an expired in-memory entry.
C38_ExpiryFixedAtLogin ==
    [][\A u \in DOMAIN login_state :
          LET login == event'.user = u /\ event'.name = "authenticate_user"
              read == event'.user = u /\ event'.name = "is_authenticated"
              authed_after == is_authenticated(authenticated_users', user_sessions',
                                               now', u).ok
          IN  /\ (Has(user_sessions', u) /\ ~login)
                    => Has(user_sessions, u) /\ user_sessions'[u] = user_sessions[u]
              /\ (Has(authenticated_users', u) /\ ~login)
                    => \/ /\ Has(authenticated_users, u)
                          /\ authenticated_users'[u] = authenticated_users[u]
                       \/ /\ read /\ Has(user_sessions, u)
                          /\ authenticated_users'[u] = user_sessions[u]
              /\ read => user_sessions' = user_sessions
              /\ (Has(user_sessions', u) /\ now' >= user_sessions'[u]) => ~authed_after
              /\ (~IsAuthenticated(u) /\ authed_after) => login
              /\ (read /\ Has(authenticated_users, u) /\ now >= authenticated_users[u])
                    => /\ ~Has(authenticated_users', u)
                       /\ event'.reply = "false"]_vars

\* the clock has reached the expiry set at login: a read has answered no
\* and the in-memory entry is gone, the row still in the table
C38_Witness ==
    /\ event.name = "is_authenticated" /\ event.reply = "false"
    /\ Has(user_sessions, event.user) /\ user_sessions[event.user] = now
    /\ ~Has(authenticated_users, event.user)

(***************************************************************************)
(* Properties of the amount of a decrement                                 *)
(***************************************************************************)
\* C39: a call of reduce_inventory_quantity with an amount of 0 or less
\* returns False and leaves the inventory as it was, and no call leaves a
\* row with a larger quantity than it had.
C39_NoIncreaseByDecrement ==
    [][event'.call.made
          => /\ event'.call.amount <= 0
                   => ~event'.call.ok /\ inventory' = inventory
             /\ \A i \in DOMAIN inventory :
                    /\ i \in DOMAIN inventory'
                    /\ inventory'[i].quantity <= inventory[i].quantity]_vars

\* a call with the amount -1 on a stored row was refused and the row holds
\* what it held
C39_Witness ==
    /\ event.name = "reduce_inventory_quantity" /\ event.call.made
    /\ event.call.amount = -1 /\ event.call.found /\ ~event.call.ok
    /\ inventory[event.call.id].quantity = event.call.before

====
